---- MODULE Spec2Model ----
(***************************************************************************)
(* MSCode (MatrixStack-Code): the machine, its instruction families, the   *)
(* planes and stacks it runs on, and the two program loaders               *)
(* (load::from_str, growable; build::from_str, fixed-size).                *)
(*                                                                         *)
(* Rust values are represented as follows.                                 *)
(*   Option<T>      None == << >>, Some(v) == <<v>>                        *)
(*   usize          0 .. UsizeMax, wrapping arithmetic modulo UsizeMax + 1 *)
(*   N              core::num::Wrapping<i8> (number.rs:46), NMin .. NMax   *)
(*   char           a one-character string; a line is a sequence of chars  *)
(*   Vec / array    a sequence; Rust index i is TLA+ index i + 1           *)
(***************************************************************************)
EXTENDS Integers, Sequences, FiniteSets, TLC

\* ------------------------------------------------------------------ bounds
\* Width of usize in bits (64 on the real targets; the wrap is what matters).
UsizeBits == 4
\* Longest program text, in lines.
MaxLines == 2
\* A step is not taken once some stack holds more than this many values;
\* the stacks handed to an instruction on its own have had at most this
\* many values pushed.
MaxStackLen == 3

RECURSIVE Pow2(_)
Pow2(n) == IF n = 0 THEN 1 ELSE 2 * Pow2(n - 1)

UsizeMod == Pow2(UsizeBits)
UsizeMax == UsizeMod - 1

\* ------------------------------------------------------------------ Option
None == << >>
Some(v) == <<v>>
unwrap_or(o, d) == IF o = None THEN d ELSE o[1]

\* ------------------------------------------------------------------ usize
wrapping_add(a, b) == (a + b) % UsizeMod
\* a subtraction that stops at 0 instead of wrapping
saturating_sub(a, b) == IF a < b THEN 0 ELSE a - b
wrapping_sub(a, b) == (a - b + UsizeMod) % UsizeMod

\* ------------------------------------------------- bit operations on u8
RECURSIVE BitAnd(_, _)
BitAnd(a, b) ==
    IF a = 0 \/ b = 0 THEN 0
    ELSE (a % 2) * (b % 2) + 2 * BitAnd(a \div 2, b \div 2)

RECURSIVE BitXor(_, _)
BitXor(a, b) ==
    IF a = 0 THEN b
    ELSE IF b = 0 THEN a
    ELSE ((a + b) % 2) + 2 * BitXor(a \div 2, b \div 2)

RECURSIVE BitOr(_, _)
BitOr(a, b) ==
    IF a = 0 THEN b
    ELSE IF b = 0 THEN a
    ELSE (IF a % 2 = 1 \/ b % 2 = 1 THEN 1 ELSE 0) + 2 * BitOr(a \div 2, b \div 2)

Shr(a, n) == a \div Pow2(n)

\* ------------------------------------------------------ N = Wrapping<i8>
NBits == 8
NMod == Pow2(NBits)
NMin == -(NMod \div 2)
NMax == (NMod \div 2) - 1
ZERO == 0
ONE == 1
NDefault == 0

\* two's complement wrap of an integer result into N
NWrap(x) == ((x - NMin) % NMod) + NMin
\* the bit pattern of a value of N, and back
NBitsOf(n) == n % NMod
NOfBits(u) == IF u > NMax THEN u - NMod ELSE u
Abs(x) == IF x < 0 THEN -x ELSE x

N_add(a, b) == NWrap(a + b)
N_sub(a, b) == NWrap(a - b)
N_mul(a, b) == NWrap(a * b)
\* Rust integer division truncates towards zero; MIN / -1 wraps to MIN
N_div(a, b) ==
    LET q == Abs(a) \div Abs(b)
    IN NWrap(IF (a < 0) = (b < 0) THEN q ELSE -q)
N_not(a) == NOfBits(NMod - 1 - NBitsOf(a))
N_bitor(a, b) == NOfBits(BitOr(NBitsOf(a), NBitsOf(b)))
N_bitand(a, b) == NOfBits(BitAnd(NBitsOf(a), NBitsOf(b)))
N_bitxor(a, b) == NOfBits(BitXor(NBitsOf(a), NBitsOf(b)))

\* ------------------------------------------------------------------ stacks
\* VecStack<T>(Vec<T>)
VecStack_new == [kind |-> "VecStack", v |-> << >>]
VecStack_push(s, item) == [s EXCEPT !.v = Append(@, item)]
VecStack_pop(s) ==
    IF Len(s.v) = 0
    THEN [stack |-> s, out |-> None]
    ELSE [stack |-> [s EXCEPT !.v = SubSeq(@, 1, Len(@) - 1)],
          out |-> Some(s.v[Len(s.v)])]
VecStack_extend(s, items) == [s EXCEPT !.v = @ \o items]

\* ArrayStack<CAPACITY, T>([Option<T>; CAPACITY], usize)
ArrayStack_new(capacity) ==
    [kind |-> "ArrayStack", a |-> [i \in 1..capacity |-> None], i |-> 0]
\* a push that refuses a value when the stack is full
ArrayStack_push_bounded(s, item) ==
    IF s.a[s.i + 1] # None THEN s
    ELSE [s EXCEPT !.a[s.i + 1] = Some(item),
                   !.i = wrapping_add(s.i, 1) % Len(s.a)]

ArrayStack_push(s, item) ==
    [s EXCEPT !.a[s.i + 1] = Some(item),
              !.i = wrapping_add(s.i, 1) % Len(s.a)]

\* a pop that leaves the value in its cell
ArrayStack_pop_keeping(s) ==
    LET j == wrapping_sub(wrapping_add(Len(s.a), s.i), 1) % Len(s.a)
    IN [stack |-> [s EXCEPT !.i = j], out |-> s.a[j + 1]]

ArrayStack_pop(s) ==
    LET j == wrapping_sub(wrapping_add(Len(s.a), s.i), 1) % Len(s.a)
    IN [stack |-> [s EXCEPT !.i = j, !.a[j + 1] = None],
        out |-> s.a[j + 1]]

\* trait Stack, dispatched on the implementing type
Stack_push(s, item) ==
    IF s.kind = "VecStack" THEN VecStack_push(s, item) ELSE ArrayStack_push(s, item)
Stack_pop(s) ==
    IF s.kind = "VecStack" THEN VecStack_pop(s) ELSE ArrayStack_pop(s)

\* ------------------------------------------------------------------ planes
\* A cell reference handed out by get / get_mut: a cell of the rows, or the
\* plane's spare default value (the last field of both plane structs).
CellRef(x, y) == [at |-> "cell", x |-> x, y |-> y]
DefaultRef == [at |-> "default", x |-> 0, y |-> 0]

\* a bounds test that lets the coordinate just past the edge through
VecPlane_get_inclusive(p, pointer) ==
    IF pointer[1] > p.width \/ pointer[2] > p.height THEN None
    ELSE IF pointer[2] < Len(p.rows)
         THEN IF pointer[1] < Len(p.rows[pointer[2] + 1])
              THEN Some(CellRef(pointer[1], pointer[2]))
              ELSE Some(DefaultRef)
         ELSE Some(DefaultRef)

\* VecPlane<T>(usize, usize, Vec<Vec<T>>, T)
VecPlane_get(p, pointer) ==
    IF pointer[1] >= p.width \/ pointer[2] >= p.height THEN None
    ELSE IF pointer[2] < Len(p.rows)
         THEN IF pointer[1] < Len(p.rows[pointer[2] + 1])
              THEN Some(CellRef(pointer[1], pointer[2]))
              ELSE Some(DefaultRef)
         ELSE Some(DefaultRef)

\* VecPlane::new(width, height)
VecPlane_new(width, height, dflt) ==
    [kind |-> "VecPlane",
     width |-> width,
     height |-> height,
     rows |-> [r \in 1..height |-> [c \in 1..width |-> dflt]],
     dflt |-> dflt]

\* VecPlane::from(Vec<Vec<T>>): width is the longest row, rows are padded
RECURSIVE MaxRowLen(_)
MaxRowLen(rows) ==
    IF rows = << >> THEN 0
    ELSE LET acc == MaxRowLen(SubSeq(rows, 1, Len(rows) - 1))
             row == rows[Len(rows)]
         IN IF Len(row) > acc THEN Len(row) ELSE acc

\* a plane one column wider than its longest row
VecPlane_from_wider(value, dflt) ==
    LET width == MaxRowLen(value) + 1
    IN [kind |-> "VecPlane",
        width |-> width,
        height |-> Len(value),
        rows |-> [r \in 1..Len(value) |->
                    value[r] \o [k \in 1..(width - Len(value[r])) |-> dflt]],
        dflt |-> dflt]

\* a plane as wide as its last row
VecPlane_from_last(value, dflt) ==
    LET width == IF value = << >> THEN 0 ELSE Len(value[Len(value)])
    IN [kind |-> "VecPlane",
        width |-> width,
        height |-> Len(value),
        rows |-> [r \in 1..Len(value) |->
                    value[r] \o [k \in 1..(width - Len(value[r])) |-> dflt]],
        dflt |-> dflt]

VecPlane_from(value, dflt) ==
    LET width == MaxRowLen(value)
    IN [kind |-> "VecPlane",
        width |-> width,
        height |-> Len(value),
        rows |-> [r \in 1..Len(value) |->
                    value[r] \o [k \in 1..(width - Len(value[r])) |-> dflt]],
        dflt |-> dflt]

\* ArrayPlane<WIDTH, HEIGHT, T>([[T; WIDTH]; HEIGHT], T)
ArrayPlane_new(WIDTH, HEIGHT, dflt) ==
    [kind |-> "ArrayPlane",
     width |-> WIDTH,
     height |-> HEIGHT,
     rows |-> [r \in 1..HEIGHT |-> [c \in 1..WIDTH |-> dflt]],
     dflt |-> dflt]

ArrayPlane_get(p, pointer) ==
    IF pointer[1] >= p.width \/ pointer[2] >= p.height THEN None
    ELSE IF pointer[2] < Len(p.rows)
         THEN IF pointer[1] < Len(p.rows[pointer[2] + 1])
              THEN Some(CellRef(pointer[1], pointer[2]))
              ELSE Some(DefaultRef)
         ELSE Some(DefaultRef)

\* trait Plane, dispatched on the implementing type; get and get_mut have the
\* same bounds test and hand out the same cell
Plane_get(p, pointer) ==
    IF p.kind = "VecPlane" THEN VecPlane_get(p, pointer) ELSE ArrayPlane_get(p, pointer)
Plane_get_mut(p, pointer) == Plane_get(p, pointer)

\* reading and writing through a cell reference
Deref(p, ref) ==
    IF ref.at = "cell" THEN p.rows[ref.y + 1][ref.x + 1] ELSE p.dflt
Assign(p, ref, value) ==
    IF ref.at = "cell"
    THEN [p EXCEPT !.rows[ref.y + 1][ref.x + 1] = value]
    ELSE [p EXCEPT !.dflt = value]

\* ------------------------------------------------------------- directions
\* Velocity = u8: bit 1 selects the axis, bit 0 the sign
Velocity_default == 0
\* Pointer = (usize, usize)
Pointer_default == <<0, 0>>

\* an advance that leaves the pointer where it is
add_velocity_to_pointer_still(velocity, pointer) == pointer

add_velocity_to_pointer(velocity, pointer) ==
    LET onX == BitAnd(velocity, 2) = 0
        a == IF onX THEN pointer[1] ELSE pointer[2]
        b == IF BitAnd(velocity, 1) = 0
             THEN wrapping_add(a, 1)
             ELSE wrapping_sub(a, 1)
    IN IF onX THEN <<b, pointer[2]>> ELSE <<pointer[1], b>>

\* ------------------------------------------------------------ instructions
Space == [fam |-> "Space", op |-> "Space"]
Deflector(d) == [fam |-> "Deflector", op |-> d]
Operator(o) == [fam |-> "Operator", op |-> o]
Comparator(c) == [fam |-> "Comparator", op |-> c]
IO(io) == [fam |-> "IO", op |-> io]
Instruction_default == Space

Deflectors == {"RightArrow", "LeftArrow", "UpArrow", "DownArrow",
               "OmniMirror", "ForwardMirror", "BackMirror"}
Operators == {"Push", "Pop", "Duplicate", "Add", "Subtract", "Multiply",
              "Divide", "Not", "Or", "And", "Xor"}
Comparators == {"Zero", "Stack"}
IOs == {"Print", "Input"}

\* a forward mirror that adds to the direction where the code flips bits
Deflector_apply_adding(d, velocity) ==
    CASE d = "RightArrow" -> 0
      [] d = "LeftArrow" -> 1
      [] d = "DownArrow" -> 2
      [] d = "UpArrow" -> 3
      [] d = "OmniMirror" -> BitXor(velocity, 1)
      [] d = "BackMirror" -> BitXor(velocity, 2)
      [] d = "ForwardMirror" -> velocity + 3

\* the two diagonal mirrors taken for each other
Deflector_apply_crossed(d, velocity) ==
    CASE d = "RightArrow" -> 0
      [] d = "LeftArrow" -> 1
      [] d = "DownArrow" -> 2
      [] d = "UpArrow" -> 3
      [] d = "OmniMirror" -> BitXor(velocity, 1)
      [] d = "BackMirror" -> BitXor(velocity, 3)
      [] d = "ForwardMirror" -> BitXor(velocity, 2)

\* a forward mirror that turns the direction as a comparator does
Deflector_apply_turning(d, velocity) ==
    CASE d = "RightArrow" -> 0
      [] d = "LeftArrow" -> 1
      [] d = "DownArrow" -> 2
      [] d = "UpArrow" -> 3
      [] d = "OmniMirror" -> BitXor(velocity, 1)
      [] d = "BackMirror" -> BitXor(velocity, 2)
      [] d = "ForwardMirror" ->
           BitXor(BitXor(velocity, 3), BitAnd(Shr(velocity, 1), 1))

Deflector_apply(d, velocity) ==
    CASE d = "RightArrow" -> 0
      [] d = "LeftArrow" -> 1
      [] d = "DownArrow" -> 2
      [] d = "UpArrow" -> 3
      [] d = "OmniMirror" -> BitXor(velocity, 1)
      [] d = "BackMirror" -> BitXor(velocity, 2)
      [] d = "ForwardMirror" -> BitXor(velocity, 3)

\* the arms of the match in Operator::apply(self, register, stack) -> N; each
\* gives the register returned and the stack left behind
\* a Push that hands the register over to the stack
Operator_Push_moving(register, stack) ==
    [register |-> ZERO, stack |-> Stack_push(stack, register)]

Operator_Push(register, stack) ==
    [register |-> register, stack |-> Stack_push(stack, register)]

\* a Pop that keeps the register when there is nothing to pop
Operator_Pop_keeping(register, stack) ==
    LET popped == Stack_pop(stack)
    IN [register |-> unwrap_or(popped.out, register), stack |-> popped.stack]

Operator_Pop(register, stack) ==
    LET popped == Stack_pop(stack)
    IN [register |-> unwrap_or(popped.out, NDefault), stack |-> popped.stack]

\* a Duplicate that treats the missing value as a value popped
Operator_Duplicate_twice(register, stack) ==
    LET popped == Stack_pop(stack)
        value == unwrap_or(popped.out, ZERO)
    IN [register |-> register,
        stack |-> Stack_push(Stack_push(popped.stack, value), value)]

Operator_Duplicate(register, stack) ==
    LET popped == Stack_pop(stack)
    IN IF popped.out = None
       THEN [register |-> register, stack |-> Stack_push(popped.stack, ZERO)]
       ELSE [register |-> register,
             stack |-> Stack_push(Stack_push(popped.stack, popped.out[1]),
                                  popped.out[1])]

Operator_Add(register, stack) ==
    LET popped == Stack_pop(stack)
    IN [register |-> N_add(register, unwrap_or(popped.out, NDefault)),
        stack |-> popped.stack]

Operator_Subtract(register, stack) ==
    LET popped == Stack_pop(stack)
    IN [register |-> N_sub(register, unwrap_or(popped.out, NDefault)),
        stack |-> popped.stack]

\* a Multiply whose missing operand is the default number
Operator_Multiply_default(register, stack) ==
    LET popped == Stack_pop(stack)
    IN [register |-> N_mul(register, unwrap_or(popped.out, NDefault)),
        stack |-> popped.stack]

Operator_Multiply(register, stack) ==
    LET popped == Stack_pop(stack)
    IN [register |-> N_mul(register, unwrap_or(popped.out, ONE)),
        stack |-> popped.stack]

\* a Divide that answers ZERO to a zero divisor
Operator_Divide_zeroing(register, stack) ==
    LET popped == Stack_pop(stack)
        rhs == unwrap_or(popped.out, ONE)
    IN [register |-> IF rhs = ZERO THEN ZERO ELSE N_div(register, rhs),
        stack |-> popped.stack]

Operator_Divide(register, stack) ==
    LET popped == Stack_pop(stack)
        rhs0 == unwrap_or(popped.out, ONE)
        rhs == IF rhs0 = ZERO THEN ONE ELSE rhs0
    IN [register |-> N_div(register, rhs), stack |-> popped.stack]

Operator_Not(register, stack) ==
    [register |-> N_not(register), stack |-> stack]

Operator_Or(register, stack) ==
    LET popped == Stack_pop(stack)
    IN [register |-> N_bitor(register, unwrap_or(popped.out, NDefault)),
        stack |-> popped.stack]

Operator_And(register, stack) ==
    LET popped == Stack_pop(stack)
    IN [register |-> N_bitand(register, unwrap_or(popped.out, NDefault)),
        stack |-> popped.stack]

Operator_Xor(register, stack) ==
    LET popped == Stack_pop(stack)
    IN [register |-> N_bitxor(register, unwrap_or(popped.out, NDefault)),
        stack |-> popped.stack]

\* Operator::apply(self, register, stack) -> N
Operator_apply(o, register, stack) ==
    CASE o = "Push" -> Operator_Push(register, stack)
      [] o = "Pop" -> Operator_Pop(register, stack)
      [] o = "Duplicate" -> Operator_Duplicate(register, stack)
      [] o = "Add" -> Operator_Add(register, stack)
      [] o = "Subtract" -> Operator_Subtract(register, stack)
      [] o = "Multiply" -> Operator_Multiply(register, stack)
      [] o = "Divide" -> Operator_Divide(register, stack)
      [] o = "Not" -> Operator_Not(register, stack)
      [] o = "Or" -> Operator_Or(register, stack)
      [] o = "And" -> Operator_And(register, stack)
      [] o = "Xor" -> Operator_Xor(register, stack)

\* a comparison that turns the wrong way round
Redirect_swapped(velocity, register, value) ==
    IF register = value THEN velocity
    ELSE IF register < value
         THEN BitXor(BitXor(velocity, 3), BitAnd(Shr(velocity, 1), 1))
         ELSE BitXor(BitXor(velocity, 2), BitAnd(Shr(velocity, 1), 1))

\* a comparison whose greater outcome reverses instead of turning
Redirect_reversing(velocity, register, value) ==
    IF register = value THEN velocity
    ELSE IF register < value
         THEN BitXor(BitXor(velocity, 2), BitAnd(Shr(velocity, 1), 1))
         ELSE BitXor(velocity, 1)

\* the three outcomes of register.cmp(&value)
Redirect(velocity, register, value) ==
    IF register = value THEN velocity
    ELSE IF register < value
         THEN BitXor(BitXor(velocity, 2), BitAnd(Shr(velocity, 1), 1))
         ELSE BitXor(BitXor(velocity, 3), BitAnd(Shr(velocity, 1), 1))

\* a Stack comparator that reads the top of the stack and leaves it there
Comparator_apply_peeking(c, register, stack, velocity) ==
    IF c = "Zero"
    THEN [velocity |-> Redirect(velocity, register, ZERO), stack |-> stack]
    ELSE LET popped == Stack_pop(stack)
         IN [velocity |-> Redirect(velocity, register, unwrap_or(popped.out, NDefault)),
             stack |-> stack]

\* Comparator::apply(self, register, stack, velocity) -> Velocity
Comparator_apply(c, register, stack, velocity) ==
    IF c = "Zero"
    THEN [velocity |-> Redirect(velocity, register, ZERO), stack |-> stack]
    ELSE LET popped == Stack_pop(stack)
         IN [velocity |-> Redirect(velocity, register, unwrap_or(popped.out, NDefault)),
             stack |-> popped.stack]

\* an Input that also hands the register out
IO_apply_echo(io, register) ==
    IF io = "Print" THEN <<Some(register), FALSE>> ELSE <<Some(register), TRUE>>

\* IO::apply(self, register) -> (Option<&N>, bool)
IO_apply(io, register) ==
    IF io = "Print" THEN <<Some(register), FALSE>> ELSE <<None, TRUE>>

\* ------------------------------------------------------------------ Result
Ok(v) == [ok |-> TRUE, v |-> v]
Err(e) == [ok |-> FALSE, v |-> e]

\* ------------------------------------------- characters and instructions
\* impl TryFrom<char> for Instruction
Instruction_try_from(value) ==
    CASE value = " " -> Ok(Space)
      [] value = ">" -> Ok(Deflector("RightArrow"))
      [] value = "<" -> Ok(Deflector("LeftArrow"))
      [] value = "v" -> Ok(Deflector("DownArrow"))
      [] value = "^" -> Ok(Deflector("UpArrow"))
      [] value = "o" -> Ok(Deflector("OmniMirror"))
      [] value = "\\" -> Ok(Deflector("BackMirror"))
      [] value = "/" -> Ok(Deflector("ForwardMirror"))
      [] value = "," -> Ok(Operator("Push"))
      [] value = "." -> Ok(Operator("Pop"))
      [] value = "d" -> Ok(Operator("Duplicate"))
      [] value = "+" -> Ok(Operator("Add"))
      [] value = "-" -> Ok(Operator("Subtract"))
      [] value = "*" -> Ok(Operator("Multiply"))
      [] value = "~" -> Ok(Operator("Divide"))
      [] value = "!" -> Ok(Operator("Not"))
      [] value = "|" -> Ok(Operator("Or"))
      [] value = "&" -> Ok(Operator("And"))
      [] value = ":" -> Ok(Operator("Xor"))
      [] value = "z" -> Ok(Comparator("Zero"))
      [] value = "c" -> Ok(Comparator("Stack"))
      [] value = "p" -> Ok(IO("Print"))
      [] value = "i" -> Ok(IO("Input"))
      [] OTHER -> Err([kind |-> "InvalidInstruction", char |-> value])

\* a conversion that writes the two mirrors the other way round
Deflector_into_char_swapped(d) ==
    CASE d = "RightArrow" -> ">"
      [] d = "LeftArrow" -> "<"
      [] d = "UpArrow" -> "^"
      [] d = "DownArrow" -> "v"
      [] d = "OmniMirror" -> "o"
      [] d = "ForwardMirror" -> "\\"
      [] d = "BackMirror" -> "/"

\* impl From<Deflector> for char
Deflector_into_char(d) ==
    CASE d = "RightArrow" -> ">"
      [] d = "LeftArrow" -> "<"
      [] d = "UpArrow" -> "^"
      [] d = "DownArrow" -> "v"
      [] d = "OmniMirror" -> "o"
      [] d = "ForwardMirror" -> "/"
      [] d = "BackMirror" -> "\\"

\* impl From<Operator> for char
Operator_into_char(o) ==
    CASE o = "Push" -> ","
      [] o = "Pop" -> "."
      [] o = "Duplicate" -> "d"
      [] o = "Add" -> "+"
      [] o = "Subtract" -> "-"
      [] o = "Multiply" -> "*"
      [] o = "Divide" -> "~"
      [] o = "Not" -> "!"
      [] o = "Or" -> "|"
      [] o = "And" -> "&"
      [] o = "Xor" -> ":"

\* impl From<Comparator> for char
Comparator_into_char(c) == IF c = "Zero" THEN "z" ELSE "c"

\* impl From<IO> for char
IO_into_char(io) == IF io = "Print" THEN "p" ELSE "i"

\* impl From<Instruction> for char
Instruction_into_char(val) ==
    CASE val.fam = "Space" -> " "
      [] val.fam = "Deflector" -> Deflector_into_char(val.op)
      [] val.fam = "Operator" -> Operator_into_char(val.op)
      [] val.fam = "Comparator" -> Comparator_into_char(val.op)
      [] val.fam = "IO" -> IO_into_char(val.op)

\* ------------------------------------------------------------ text helpers
IsWhitespace(c) == c \in {" ", "\t"}
Digits == <<"0", "1", "2", "3", "4", "5", "6", "7", "8", "9">>
IsDigit(c) == \E k \in 1..10 : Digits[k] = c
DigitVal(c) == (CHOOSE k \in 1..10 : Digits[k] = c) - 1

\* a take_while that takes every character
take_while_not_whole(chars, stop) == chars

\* Iterator::take_while(|c| c != stop)
RECURSIVE take_while_not(_, _)
take_while_not(chars, stop) ==
    IF chars = << >> \/ chars[1] = stop THEN << >>
    ELSE <<chars[1]>> \o take_while_not(Tail(chars), stop)

Contains(chars, c) == \E k \in 1..Len(chars) : chars[k] = c

\* str::split_whitespace: the maximal runs of non-whitespace characters
RECURSIVE split_ws(_, _, _)
split_ws(chars, cur, acc) ==
    IF chars = << >>
    THEN IF cur = << >> THEN acc ELSE Append(acc, cur)
    ELSE IF IsWhitespace(chars[1])
         THEN split_ws(Tail(chars), << >>,
                       IF cur = << >> THEN acc ELSE Append(acc, cur))
         ELSE split_ws(Tail(chars), Append(cur, chars[1]), acc)
split_whitespace(chars) == split_ws(chars, << >>, << >>)

\* value of a digit string, most significant digit first
RECURSIVE DecimalValue(_)
DecimalValue(ds) ==
    IF ds = << >> THEN 0
    ELSE 10 * DecimalValue(SubSeq(ds, 1, Len(ds) - 1)) + DigitVal(ds[Len(ds)])
AllDigits(ds) == ds # << >> /\ \A k \in 1..Len(ds) : IsDigit(ds[k])

\* <usize as FromStr>::from_str: an optional '+', then digits, in range
usize_parse(str) ==
    LET ds == IF str # << >> /\ str[1] = "+" THEN Tail(str) ELSE str
    IN IF AllDigits(ds) /\ DecimalValue(ds) <= UsizeMax
       THEN Ok(DecimalValue(ds))
       ELSE Err([kind |-> "InvalidCoordinate"])

\* try_parse_n: Wrapping(value.parse()?) -- an optional sign, digits, in range
try_parse_n(str) ==
    LET signed == str # << >> /\ str[1] \in {"+", "-"}
        ds == IF signed THEN Tail(str) ELSE str
        n == IF signed /\ str[1] = "-" THEN -DecimalValue(ds) ELSE DecimalValue(ds)
    IN IF AllDigits(ds) /\ n >= NMin /\ n <= NMax
       THEN Ok(n)
       ELSE Err([kind |-> "InvalidNumber"])

\* try_usize_from_n: value.0.try_into()
try_usize_from_n(n) ==
    IF n >= 0 THEN Ok(n) ELSE Err([kind |-> "InvalidCoordinate"])

\* ------------------------------------------------- load (growable loader)
\* chars.map(Instruction::try_from).collect::<Result<Vec<_>, _>>():
\* the first error, or all the instructions
\* a collect that stops at the first error and keeps what came before it
RECURSIVE collect_instructions_prefix(_)
collect_instructions_prefix(chars) ==
    IF chars = << >> THEN Ok(<< >>)
    ELSE LET head == Instruction_try_from(chars[1])
         IN IF ~head.ok THEN Ok(<< >>)
            ELSE Ok(<<head.v>> \o collect_instructions_prefix(Tail(chars)).v)

RECURSIVE collect_instructions(_)
collect_instructions(chars) ==
    IF chars = << >> THEN Ok(<< >>)
    ELSE LET head == Instruction_try_from(chars[1])
         IN IF ~head.ok THEN head
            ELSE LET rest == collect_instructions(Tail(chars))
                 IN IF ~rest.ok THEN rest ELSE Ok(<<head.v>> \o rest.v)

\* numbers_string.map(try_parse_n).collect::<Result<Vec<N>, _>>()
RECURSIVE collect_numbers(_)
collect_numbers(strs) ==
    IF strs = << >> THEN Ok(<< >>)
    ELSE LET head == try_parse_n(strs[1])
         IN IF ~head.ok THEN head
            ELSE LET rest == collect_numbers(Tail(strs))
                 IN IF ~rest.ok THEN rest ELSE Ok(<<head.v>> \o rest.v)

\* load::parse_line(line, instructions, stack_instructions, try_parse_n);
\* locals holds the two vectors of from_str
load_parse_line(line, locals) ==
    IF line = << >>
    THEN Ok([locals EXCEPT !.instructions = Append(@, << >>)])
    ELSE IF line[1] = "#" THEN Ok(locals)
    ELSE IF line[1] = "s"
    THEN LET line_string == take_while_not(Tail(line), "#")
             numbers_string == split_whitespace(line_string)
         IN IF Len(numbers_string) < 2
            THEN Err([kind |-> "MissingStackPointer", line |-> line])
            ELSE LET x == usize_parse(numbers_string[1])
                     y == usize_parse(numbers_string[2])
                     stack == collect_numbers(SubSeq(numbers_string, 3, Len(numbers_string)))
                 IN IF ~x.ok THEN x
                    ELSE IF ~y.ok THEN y
                    ELSE IF ~stack.ok THEN stack
                    ELSE Ok([locals EXCEPT !.stack_instructions =
                                Append(@, <<x.v, y.v, stack.v>>)])
    ELSE LET code_line == collect_instructions(take_while_not(line, "#"))
         IN IF ~code_line.ok THEN code_line
            ELSE Ok([locals EXCEPT !.instructions = Append(@, code_line.v)])

\* a stack plane a quarter of the instruction plane, rounded down
load_blank_stacks_floor(instructions) ==
    [kind |-> "VecPlane",
     width |-> instructions.width \div 4,
     height |-> instructions.height \div 4,
     rows |-> [r \in 1..(instructions.height \div 4) |->
                 [c \in 1..(instructions.width \div 4) |-> VecStack_new]],
     dflt |-> VecStack_new]

\* the blank stack plane of create_stacks, sized from the instruction plane
load_blank_stacks(instructions) ==
    [kind |-> "VecPlane",
     width |-> (instructions.width + 3) \div 4,
     height |-> (instructions.height + 3) \div 4,
     rows |-> [r \in 1..((instructions.height + 3) \div 4) |->
                 [c \in 1..((instructions.width + 3) \div 4) |-> VecStack_new]],
     dflt |-> VecStack_new]

\* load::create_stacks(stack_instructions, instructions)
\* a loop that takes the coordinates of a stack line for instruction
\* coordinates
RECURSIVE create_stacks_loop_coarse(_, _)
create_stacks_loop_coarse(stack_instructions, stacks) ==
    IF stack_instructions = << >> THEN Ok(stacks)
    ELSE LET x == stack_instructions[1][1] \div 4
             y == stack_instructions[1][2] \div 4
             new_stack == stack_instructions[1][3]
             stack == Plane_get_mut(stacks, <<x, y>>)
         IN IF stack = None
            THEN Err([kind |-> "StackPointerOutOfRange", pointer |-> <<x, y>>])
            ELSE create_stacks_loop_coarse(
                     Tail(stack_instructions),
                     Assign(stacks, stack[1],
                            VecStack_extend(Deref(stacks, stack[1]), new_stack)))

RECURSIVE create_stacks_loop(_, _)
create_stacks_loop(stack_instructions, stacks) ==
    IF stack_instructions = << >> THEN Ok(stacks)
    ELSE LET x == stack_instructions[1][1]
             y == stack_instructions[1][2]
             new_stack == stack_instructions[1][3]
             stack == Plane_get_mut(stacks, <<x, y>>)
         IN IF stack = None
            THEN Err([kind |-> "StackPointerOutOfRange", pointer |-> <<x, y>>])
            ELSE create_stacks_loop(
                     Tail(stack_instructions),
                     Assign(stacks, stack[1],
                            VecStack_extend(Deref(stacks, stack[1]), new_stack)))

create_stacks(stack_instructions, instructions) ==
    create_stacks_loop(stack_instructions, load_blank_stacks(instructions))

\* --------------------------------------------- build (fixed-size loader)
\* the part of a token before its first '#'
before_comment(number_str) == take_while_not(number_str, "#")

\* the stack-line loop of build::parse_line; ref is the located stack (None
\* until both coordinates are read), sx the x coordinate (None until read)
RECURSIVE build_stack_tokens(_, _, _, _)
build_stack_tokens(tokens, stacks, ref, sx) ==
    IF tokens = << >> THEN Ok(stacks)
    ELSE LET comment == Contains(tokens[1], "#")
             number_str == IF comment THEN before_comment(tokens[1]) ELSE tokens[1]
             number == try_parse_n(number_str)
         IN IF comment /\ number_str = << >> THEN Ok(stacks)
            ELSE IF ~number.ok THEN number
            ELSE IF ref # None
            THEN LET pushed == Assign(stacks, ref[1],
                                      Stack_push(Deref(stacks, ref[1]), number.v))
                 IN IF comment THEN Ok(pushed)
                    ELSE build_stack_tokens(Tail(tokens), pushed, ref, sx)
            ELSE IF sx # None
            THEN LET y == try_usize_from_n(number.v)
                 IN IF ~y.ok THEN y
                    ELSE LET found == Plane_get_mut(stacks, <<sx[1], y.v>>)
                         IN IF found = None
                            THEN Err([kind |-> "StackPointerOutOfRange",
                                      pointer |-> <<sx[1], y.v>>])
                            ELSE IF comment THEN Ok(stacks)
                            ELSE build_stack_tokens(Tail(tokens), stacks, found, sx)
            ELSE LET x == try_usize_from_n(number.v)
                 IN IF ~x.ok THEN x
                    ELSE IF comment THEN Ok(stacks)
                    ELSE build_stack_tokens(Tail(tokens), stacks, ref, Some(x.v))

\* a row loop that drops the instructions that do not fit
RECURSIVE build_row_clipping(_, _, _, _)
build_row_clipping(chars, x, y, instructions) ==
    IF chars = << >> THEN Ok(instructions)
    ELSE LET new_instruction == Instruction_try_from(chars[1])
             instruction == Plane_get_mut(instructions, <<x, y>>)
         IN IF ~new_instruction.ok THEN new_instruction
            ELSE IF instruction = None
            THEN Ok(instructions)
            ELSE build_row_clipping(Tail(chars), x + 1, y,
                           Assign(instructions, instruction[1], new_instruction.v))

\* the instruction-row loop of build::parse_line, from column x on
RECURSIVE build_row(_, _, _, _)
build_row(chars, x, y, instructions) ==
    IF chars = << >> THEN Ok(instructions)
    ELSE LET new_instruction == Instruction_try_from(chars[1])
             instruction == Plane_get_mut(instructions, <<x, y>>)
         IN IF ~new_instruction.ok THEN new_instruction
            ELSE IF instruction = None
            THEN Err([kind |-> "InstructionOutOfRange",
                      pointer |-> <<x + 1, y>>,
                      char |-> Instruction_into_char(new_instruction.v)])
            ELSE build_row(Tail(chars), x + 1, y,
                           Assign(instructions, instruction[1], new_instruction.v))

\* a parse_line that does not count an empty line as a row
build_parse_line_skipping(line, locals) ==
    IF line = << >>
    THEN Ok(locals)
    ELSE IF line[1] = "#" THEN Ok(locals)
    ELSE IF line[1] = "s"
    THEN LET r == build_stack_tokens(split_whitespace(Tail(line)),
                                     locals.stacks, None, None)
         IN IF ~r.ok THEN r ELSE Ok([locals EXCEPT !.stacks = r.v])
    ELSE LET r == build_row(line, 0, locals.y, locals.instructions)
         IN IF ~r.ok THEN r
            ELSE Ok([locals EXCEPT !.instructions = r.v, !.y = @ + 1])

\* build::parse_line(line, y, instructions, stacks, try_parse_n,
\* try_usize_from_n); locals holds y and the two planes of from_str
build_parse_line(line, locals) ==
    IF line = << >>
    THEN Ok([locals EXCEPT !.y = @ + 1])
    ELSE IF line[1] = "#" THEN Ok(locals)
    ELSE IF line[1] = "s"
    THEN LET r == build_stack_tokens(split_whitespace(Tail(line)),
                                     locals.stacks, None, None)
         IN IF ~r.ok THEN r ELSE Ok([locals EXCEPT !.stacks = r.v])
    ELSE LET r == build_row(line, 0, locals.y, locals.instructions)
         IN IF ~r.ok THEN r
            ELSE Ok([locals EXCEPT !.instructions = r.v, !.y = @ + 1])

\* ---------------------------------------------------------------- machine
\* a constructor that starts the machine heading left with register ONE
Machine_new_preset(instructions_, stacks_) ==
    [state |-> "Running",
     instructions |-> instructions_,
     stacks |-> stacks_,
     register |-> ONE,
     pointer |-> <<0, 0>>,
     velocity |-> 1]

\* Machine::new(instructions, stacks)
Machine_new(instructions_, stacks_) ==
    [state |-> "Running",
     instructions |-> instructions_,
     stacks |-> stacks_,
     register |-> ZERO,
     pointer |-> Pointer_default,
     velocity |-> Velocity_default]

\* a stack for every cell: the pointer taken for the stack coordinate
stack_pointer_fine(pointer_) == pointer_

\* the stack an Operator or Comparator at the pointer works on
stack_pointer(pointer_) == <<pointer_[1] \div 4, pointer_[2] \div 4>>

\* a test that only keeps a stopped machine from stepping
step_runs_unless_stopped(state_) == state_ # "Stopped"

\* matches!(self.state, State::Running), the test that lets step run
step_runs(state_) == state_ = "Running"

\* tests that take input in a state that does not wait for it
input_accepted_unless_running(state_) == state_ # "Running"
input_accepted_unless_stopped(state_) == state_ # "Stopped"

\* matches!(self.state, State::InputWaiting), the test that lets input act
input_accepted(state_) == state_ = "InputWaiting"

\* the match on the fetched instruction in Machine::step: the machine after
\* the instruction's effect, the output, and whether the stack lookup
\* panicked ("Stack pointer out of range!")
step_apply(m, instruction) ==
    LET found == Plane_get_mut(m.stacks, stack_pointer(m.pointer))
    IN CASE instruction.fam = "Space" ->
              [m |-> m, output |-> None, panic |-> FALSE]
         [] instruction.fam = "Deflector" ->
              [m |-> [m EXCEPT !.velocity = Deflector_apply(instruction.op, m.velocity)],
               output |-> None, panic |-> FALSE]
         [] instruction.fam = "Operator" ->
              IF found = None
              THEN [m |-> m, output |-> None, panic |-> TRUE]
              ELSE LET r == Operator_apply(instruction.op, m.register,
                                           Deref(m.stacks, found[1]))
                   IN [m |-> [m EXCEPT !.register = r.register,
                                       !.stacks = Assign(m.stacks, found[1], r.stack)],
                       output |-> None, panic |-> FALSE]
         [] instruction.fam = "Comparator" ->
              IF found = None
              THEN [m |-> m, output |-> None, panic |-> TRUE]
              ELSE LET r == Comparator_apply(instruction.op, m.register,
                                             Deref(m.stacks, found[1]), m.velocity)
                   IN [m |-> [m EXCEPT !.velocity = r.velocity,
                                       !.stacks = Assign(m.stacks, found[1], r.stack)],
                       output |-> None, panic |-> FALSE]
         [] instruction.fam = "IO" ->
              LET r == IO_apply(instruction.op, m.register)
              IN [m |-> IF r[2] THEN [m EXCEPT !.state = "InputWaiting"] ELSE m,
                  output |-> r[1], panic |-> FALSE]

\* a halt that still moves the pointer
step_halt_advancing(m) ==
    [m EXCEPT !.state = "Stopped",
              !.pointer = add_velocity_to_pointer(m.velocity, m.pointer)]

\* a halt that wraps the pointer back onto the plane, as on a torus
step_halt_toroidal(m) ==
    IF m.instructions.width = 0 \/ m.instructions.height = 0
    THEN [m EXCEPT !.state = "Stopped"]
    ELSE [m EXCEPT !.pointer = <<m.pointer[1] % m.instructions.width,
                                 m.pointer[2] % m.instructions.height>>]

\* the else-branch of the fetch: the pointer is outside the instructions
step_halt(m) == [m EXCEPT !.state = "Stopped"]

\* a step that stays on the Input cell while it waits
step_advance_unless_waiting(m) ==
    IF m.state = "InputWaiting" THEN m
    ELSE [m EXCEPT !.pointer = add_velocity_to_pointer(m.velocity, m.pointer)]

\* the pointer update that ends an executing step
step_advance(m) ==
    [m EXCEPT !.pointer = add_velocity_to_pointer(m.velocity, m.pointer)]

\* a step that moves the pointer by the velocity it had before the instruction
Machine_step_advance_first(m) ==
    IF ~(m.state = "Running")
    THEN [m |-> m, output |-> None, panic |-> FALSE]
    ELSE LET instruction == Plane_get(m.instructions, m.pointer)
         IN IF instruction = None
            THEN [m |-> [m EXCEPT !.state = "Stopped"], output |-> None, panic |-> FALSE]
            ELSE LET r == step_apply(m, Deref(m.instructions, instruction[1]))
                 IN IF r.panic THEN r
                    ELSE [m |-> [r.m EXCEPT !.pointer =
                                    add_velocity_to_pointer(m.velocity, m.pointer)],
                          output |-> r.output, panic |-> FALSE]

\* Machine::step(&mut self) -> Option<&N>
Machine_step(m) ==
    IF ~step_runs(m.state)
    THEN [m |-> m, output |-> None, panic |-> FALSE]
    ELSE LET instruction == Plane_get(m.instructions, m.pointer)
         IN IF instruction = None
            THEN [m |-> step_halt(m), output |-> None, panic |-> FALSE]
            ELSE LET r == step_apply(m, Deref(m.instructions, instruction[1]))
                 IN IF r.panic THEN r
                    ELSE [m |-> step_advance(r.m), output |-> r.output, panic |-> FALSE]

\* an input that ends the run
Machine_input_stopping(m, input) ==
    IF input_accepted(m.state)
    THEN [m EXCEPT !.register = input, !.state = "Stopped"]
    ELSE m

\* Machine::input(&mut self, input)
Machine_input(m, input) ==
    IF input_accepted(m.state)
    THEN [m EXCEPT !.register = input, !.state = "Running"]
    ELSE m

\* ------------------------------------------------------------------ inputs
\* program lines the texts are made of
Line_p == <<"p">>
Line_push_p == <<",", "p">>
Line_input_p == <<"i", "p">>
Line_pop_pop == <<".", ".">>
Line_input_cmp == <<"i", " ", " ", " ", "c">>
Line_left == <<"<">>
Line_down == <<"v">>
Line_not_zero == <<"!", "z", "d">>
Line_loop == <<">", ",", "o">>
Line_empty == << >>
Line_comment == <<"#", "p">>
Line_midcomment == <<".", "#", "?">>
Line_unknown == <<"p", "?">>
Line_stack00 == <<"s", " ", "0", " ", "0", " ", "5", " ", "1", "0">>
Line_stack00_7 == <<"s", " ", "0", " ", "0", " ", "7">>
Line_stack10 == <<"s", " ", "1", " ", "0", " ", "7">>
Line_stack_short == <<"s", " ", "0">>

Lines == {Line_p, Line_push_p, Line_input_p, Line_pop_pop, Line_input_cmp,
          Line_left,
          Line_down, Line_not_zero, Line_loop, Line_empty, Line_comment,
          Line_midcomment, Line_unknown, Line_stack00, Line_stack00_7,
          Line_stack10,
          Line_stack_short}

\* values handed to Machine::input
Inputs == {-1, 5}

\* the entry points: load::from_str, and build::from_str with its const
\* generics WIDTH, HEIGHT, STACK_CAPACITY, STACK_WIDTH, STACK_HEIGHT
LoadEntry ==
    [name |-> "load", WIDTH |-> 0, HEIGHT |-> 0, STACK_CAPACITY |-> 0,
     STACK_WIDTH |-> 0, STACK_HEIGHT |-> 0]
BuildEntries ==
    {[name |-> "build", WIDTH |-> 5, HEIGHT |-> 2, STACK_CAPACITY |-> 2,
      STACK_WIDTH |-> sw, STACK_HEIGHT |-> 1] : sw \in {1, 2}}
    \cup {[name |-> "build", WIDTH |-> 1, HEIGHT |-> 1, STACK_CAPACITY |-> 2,
            STACK_WIDTH |-> 1, STACK_HEIGHT |-> 1]}
Entries == {LoadEntry} \cup BuildEntries

\* ------------------------------------------------------------------- state
VARIABLES
    entry,          \* the from_str called, with its const generics
    source,         \* the lines of the program text read so far
    phase,          \* "parsing", "failed" (Err returned), "built", "panicked"
    locals,         \* the local variables of from_str while it parses
    err,            \* the error from_str returned
    state,          \* Machine.state
    instructions,   \* Machine.instructions
    stacks,         \* Machine.stacks
    register,       \* Machine.register
    pointer,        \* Machine.pointer
    velocity,       \* Machine.velocity
    last            \* the last call: its name, argument and return value, and
                    \* the machine's state when it was made

machine_vars == <<state, instructions, stacks, register, pointer, velocity>>
loader_vars == <<entry, source, phase, locals, err>>
vars == <<entry, source, phase, locals, err, state, instructions, stacks,
          register, pointer, velocity, last>>

\* the machine as one value
Self ==
    [state |-> state, instructions |-> instructions, stacks |-> stacks,
     register |-> register, pointer |-> pointer, velocity |-> velocity]

SetSelf(m) ==
    /\ state' = m.state
    /\ instructions' = m.instructions
    /\ stacks' = m.stacks
    /\ register' = m.register
    /\ pointer' = m.pointer
    /\ velocity' = m.velocity

\* before from_str returns there is no machine
NoPlane == [kind |-> "None", width |-> 0, height |-> 0, rows |-> << >>, dflt |-> 0]
NoMachine ==
    [state |-> "None", instructions |-> NoPlane, stacks |-> NoPlane,
     register |-> 0, pointer |-> <<0, 0>>, velocity |-> 0]
NoLocals == [y |-> 0, instructions |-> << >>, stacks |-> << >>, stack_instructions |-> << >>]
NoCall == [op |-> "none", arg |-> 0, output |-> None, state |-> "None"]
NoError == [kind |-> "None"]

\* the locals of load::from_str / build::from_str before the first line
InitLocals(e) ==
    IF e.name = "load"
    THEN [y |-> 0, instructions |-> << >>, stacks |-> << >>, stack_instructions |-> << >>]
    ELSE [y |-> 0,
          instructions |-> ArrayPlane_new(e.WIDTH, e.HEIGHT, Instruction_default),
          stacks |-> ArrayPlane_new(e.STACK_WIDTH, e.STACK_HEIGHT,
                                    ArrayStack_new(e.STACK_CAPACITY)),
          stack_instructions |-> << >>]

Init ==
    /\ entry \in Entries
    /\ source = << >>
    /\ phase = "parsing"
    /\ locals = InitLocals(entry)
    /\ err = NoError
    /\ state = NoMachine.state
    /\ instructions = NoMachine.instructions
    /\ stacks = NoMachine.stacks
    /\ register = NoMachine.register
    /\ pointer = NoMachine.pointer
    /\ velocity = NoMachine.velocity
    /\ last = NoCall

\* from_str returns Err(e): nothing is built
Fail(e) ==
    /\ phase' = "failed"
    /\ err' = e
    /\ locals' = NoLocals
    /\ UNCHANGED machine_vars

\* one iteration of `for line in source.lines()` in load::from_str
LoadParseLine(line) ==
    /\ phase = "parsing"
    /\ entry.name = "load"
    /\ Len(source) < MaxLines
    /\ source' = Append(source, line)
    /\ LET r == load_parse_line(line, locals)
       IN IF r.ok
          THEN locals' = r.v /\ UNCHANGED <<phase, err, machine_vars>>
          ELSE Fail(r.v)
    /\ UNCHANGED <<entry, last>>

\* the end of load::from_str: the plane, create_stacks, Machine::new
LoadReturn ==
    /\ phase = "parsing"
    /\ entry.name = "load"
    /\ LET plane == VecPlane_from(locals.instructions, Instruction_default)
           made == create_stacks(locals.stack_instructions, plane)
       IN IF made.ok
          THEN /\ SetSelf(Machine_new(plane, made.v))
               /\ phase' = "built"
               /\ locals' = NoLocals
               /\ UNCHANGED err
          ELSE Fail(made.v)
    /\ UNCHANGED <<entry, source, last>>

\* one iteration of `for line in source.lines()` in build::from_str
BuildParseLine(line) ==
    /\ phase = "parsing"
    /\ entry.name = "build"
    /\ Len(source) < MaxLines
    /\ source' = Append(source, line)
    /\ LET r == build_parse_line(line, locals)
       IN IF r.ok
          THEN locals' = r.v /\ UNCHANGED <<phase, err, machine_vars>>
          ELSE Fail(r.v)
    /\ UNCHANGED <<entry, last>>

\* the end of build::from_str: Machine::new
BuildReturn ==
    /\ phase = "parsing"
    /\ entry.name = "build"
    /\ SetSelf(Machine_new(locals.instructions, locals.stacks))
    /\ phase' = "built"
    /\ locals' = NoLocals
    /\ UNCHANGED <<entry, source, err, last>>

\* the length of a stack, whatever its type
StackLen(s) == IF s.kind = "VecStack" THEN Len(s.v) ELSE Len(s.a)
StacksBounded ==
    \A r \in 1..Len(stacks.rows) : \A c \in 1..Len(stacks.rows[r]) :
        StackLen(stacks.rows[r][c]) <= MaxStackLen

\* a call of Machine::step
Step ==
    /\ phase = "built"
    /\ StacksBounded
    /\ LET r == Machine_step(Self)
       IN IF r.panic
          THEN /\ phase' = "panicked"
               /\ last' = [op |-> "panic", arg |-> 0, output |-> None, state |-> state]
               /\ UNCHANGED machine_vars
          ELSE /\ SetSelf(r.m)
               /\ last' = [op |-> "step", arg |-> 0, output |-> r.output, state |-> state]
               /\ UNCHANGED phase
    /\ UNCHANGED <<entry, source, locals, err>>

\* a call of Machine::input
Input(value) ==
    /\ phase = "built"
    /\ SetSelf(Machine_input(Self, value))
    /\ last' = [op |-> "input", arg |-> value, output |-> None, state |-> state]
    /\ UNCHANGED <<entry, source, phase, locals, err>>

Next ==
    \/ \E line \in Lines : LoadParseLine(line)
    \/ LoadReturn
    \/ \E line \in Lines : BuildParseLine(line)
    \/ BuildReturn
    \/ Step
    \/ \E value \in Inputs : Input(value)

Spec == Init /\ [][Next]_vars

\* ------------------------------------- add_velocity_to_pointer on its own
\* every pointer and every direction, the function applied to them
Coords == 0..UsizeMax
Directions == 0..3

InitAdvance ==
    /\ entry = LoadEntry
    /\ source = << >>
    /\ phase = "function"
    /\ locals = NoLocals
    /\ err = NoError
    /\ state = NoMachine.state
    /\ instructions = NoMachine.instructions
    /\ stacks = NoMachine.stacks
    /\ register = NoMachine.register
    /\ pointer \in Coords \X Coords
    /\ velocity \in Directions
    /\ last = NoCall

Advance ==
    /\ phase = "function"
    /\ pointer' = add_velocity_to_pointer(velocity, pointer)
    /\ velocity' \in Directions
    /\ last' = [op |-> "add_velocity_to_pointer", arg |-> <<velocity, pointer>>,
                output |-> Some(pointer'), state |-> "None"]
    /\ UNCHANGED <<entry, source, phase, locals, err, state, instructions,
                   stacks, register>>

NextAdvance == Advance

SpecAdvance == InitAdvance /\ [][NextAdvance]_vars

\* ---------------------------- Operator::apply and Comparator::apply alone
\* registers and stack values the instructions are applied to: the ends of
\* i8, both signs, ZERO, ONE and the 10 of the tests
RegisterValues == {NMin, -7, -1, ZERO, ONE, 2, 10, NMax}
StackValues == {-1, ZERO, ONE, 3}
\* the capacities of the circular stacks
Capacities == 1..2

\* sequences of at most n stack values
SeqsUpTo(n) == UNION {[1..k -> StackValues] : k \in 0..n}

\* stack.push for every value of a sequence, first to last
RECURSIVE PushAll(_, _)
PushAll(stack, values) ==
    IF values = << >> THEN stack
    ELSE PushAll(Stack_push(stack, values[1]), Tail(values))

\* the stacks handed to apply: VecStacks and ArrayStacks after up to
\* MaxStackLen pushes, so that a circular stack is met empty, part full,
\* full and overwritten
OperandStacks ==
    {PushAll(VecStack_new, values) : values \in SeqsUpTo(MaxStackLen)}
    \cup {PushAll(ArrayStack_new(capacity), values) :
             capacity \in Capacities, values \in SeqsUpTo(MaxStackLen)}

\* a stack plane of one stack, the stack of every pointer in 0..3 x 0..3
OperandPlane(stack) ==
    [kind |-> IF stack.kind = "VecStack" THEN "VecPlane" ELSE "ArrayPlane",
     width |-> 1, height |-> 1, rows |-> <<<<stack>>>>, dflt |-> stack]
\* the stack the instruction works on
Operand == Deref(stacks, CellRef(0, 0))

InitApply ==
    /\ entry = LoadEntry
    /\ source = << >>
    /\ phase = "function"
    /\ locals = NoLocals
    /\ err = NoError
    /\ state = NoMachine.state
    /\ instructions = NoMachine.instructions
    /\ \E stack \in OperandStacks : stacks = OperandPlane(stack)
    /\ register \in RegisterValues
    /\ pointer = Pointer_default
    /\ velocity \in Directions
    /\ last = NoCall

\* register = operator.apply(register, stack), as in Machine::step
ApplyOperator(o) ==
    /\ phase = "function"
    /\ phase' = "applied"
    /\ LET r == Operator_apply(o, register, Operand)
       IN /\ register' = r.register
          /\ stacks' = Assign(stacks, CellRef(0, 0), r.stack)
    /\ last' = [op |-> "Operator_apply",
                arg |-> [instruction |-> o, register |-> register,
                         stack |-> Operand, velocity |-> velocity],
                output |-> Some(register'), state |-> "None"]
    /\ UNCHANGED <<entry, source, locals, err, state, instructions, pointer,
                   velocity>>

\* velocity = comparator.apply(&register, stack, velocity), as in Machine::step
ApplyComparator(c) ==
    /\ phase = "function"
    /\ phase' = "applied"
    /\ LET r == Comparator_apply(c, register, Operand, velocity)
       IN /\ velocity' = r.velocity
          /\ stacks' = Assign(stacks, CellRef(0, 0), r.stack)
    /\ last' = [op |-> "Comparator_apply",
                arg |-> [instruction |-> c, register |-> register,
                         stack |-> Operand, velocity |-> velocity],
                output |-> Some(velocity'), state |-> "None"]
    /\ UNCHANGED <<entry, source, locals, err, state, instructions, pointer,
                   register>>

\* self.velocity = deflector.apply(self.velocity), the Deflector arm of the
\* match in Machine::step
ApplyDeflector(d) ==
    /\ phase = "function"
    /\ phase' = "applied"
    /\ LET r == step_apply(Self, Deflector(d))
       IN /\ velocity' = r.m.velocity
          /\ register' = r.m.register
          /\ stacks' = r.m.stacks
    /\ last' = [op |-> "Deflector_apply",
                arg |-> [instruction |-> d, register |-> register,
                         stack |-> Operand, velocity |-> velocity],
                output |-> Some(velocity'), state |-> "None"]
    /\ UNCHANGED <<entry, source, locals, err, state, instructions, pointer>>

NextApply ==
    \/ \E o \in Operators : ApplyOperator(o)
    \/ \E c \in Comparators : ApplyComparator(c)
    \/ \E d \in Deflectors : ApplyDeflector(d)

SpecApply == InitApply /\ [][NextApply]_vars

\* ------------------------------------------------- ArrayStack on its own
\* the longest script of push and pop calls
MaxCalls == 8
\* the capacities of the stacks scripted (the tests use 3) and the values
\* pushed
ScriptCapacities == 1..3
ScriptValues == {1, 2, 3}
\* the type under test
ArrayStackEntry(capacity) == [name |-> "ArrayStack", CAPACITY |-> capacity]
\* the calls made so far, each with the value pushed or the Option popped
PushLine(item) == [call |-> "push", item |-> Some(item)]
PopLine(out) == [call |-> "pop", item |-> out]

InitStack ==
    /\ \E capacity \in ScriptCapacities :
          /\ entry = ArrayStackEntry(capacity)
          /\ stacks = OperandPlane(ArrayStack_new(capacity))
    /\ source = << >>
    /\ phase = "function"
    /\ locals = NoLocals
    /\ err = NoError
    /\ state = NoMachine.state
    /\ instructions = NoMachine.instructions
    /\ register = NoMachine.register
    /\ pointer = Pointer_default
    /\ velocity = Velocity_default
    /\ last = NoCall

\* stack.push(item)
StackPush(item) ==
    /\ phase = "function"
    /\ Len(source) < MaxCalls
    /\ stacks' = Assign(stacks, CellRef(0, 0), ArrayStack_push(Operand, item))
    /\ source' = Append(source, PushLine(item))
    /\ last' = [op |-> "push", arg |-> item, output |-> None, state |-> "None"]
    /\ UNCHANGED <<entry, phase, locals, err, state, instructions, register,
                   pointer, velocity>>

\* stack.pop()
StackPop ==
    /\ phase = "function"
    /\ Len(source) < MaxCalls
    /\ LET popped == ArrayStack_pop(Operand)
       IN /\ stacks' = Assign(stacks, CellRef(0, 0), popped.stack)
          /\ source' = Append(source, PopLine(popped.out))
          /\ last' = [op |-> "pop", arg |-> 0, output |-> popped.out,
                      state |-> "None"]
    /\ UNCHANGED <<entry, phase, locals, err, state, instructions, register,
                   pointer, velocity>>

NextStack ==
    \/ \E item \in ScriptValues : StackPush(item)
    \/ StackPop

SpecStack == InitStack /\ [][NextStack]_vars

\* ------------------------------------------------- the planes on their own
\* the most cells written
MaxWrites == 2
\* widths and heights of the planes, the coordinates asked for (inside, on
\* the edge, past it, the top of usize) and the items written
PlaneSizes == 0..2
PlaneCoords == {0, 1, 2, 3, UsizeMax}
PlaneItems == {IO("Print"), Operator("Push")}
\* rows handed to VecPlane::from, of equal and of unequal length
PlaneRows ==
    {<< >>,
     <<<<IO("Print")>>>>,
     <<<<IO("Print"), IO("Input")>>, <<Operator("Pop")>>>>,
     <<<< >>, <<IO("Print"), IO("Input")>>>>}
\* the planes under test, by constructor
PlaneEntries ==
    {[name |-> n, width |-> w, height |-> h, rows |-> << >>] :
        n \in {"VecPlane::new", "ArrayPlane::new"},
        w \in PlaneSizes, h \in PlaneSizes}
    \cup {[name |-> "VecPlane::from", width |-> 0, height |-> 0, rows |-> rows] :
             rows \in PlaneRows}
Plane_construct(e) ==
    CASE e.name = "VecPlane::new" ->
           VecPlane_new(e.width, e.height, Instruction_default)
      [] e.name = "ArrayPlane::new" ->
           ArrayPlane_new(e.width, e.height, Instruction_default)
      [] e.name = "VecPlane::from" ->
           VecPlane_from(e.rows, Instruction_default)
\* a cell written: one `set` line of a plane test
SetLine(at, item) == [pointer |-> at, item |-> item]

InitPlane ==
    /\ entry \in PlaneEntries
    /\ instructions = Plane_construct(entry)
    /\ source = << >>
    /\ phase = "function"
    /\ locals = NoLocals
    /\ err = NoError
    /\ state = NoMachine.state
    /\ stacks = NoMachine.stacks
    /\ register = NoMachine.register
    /\ pointer = Pointer_default
    /\ velocity = Velocity_default
    /\ last = NoCall

\* plane.get(at).copied()
PlaneGet(at) ==
    /\ phase = "function"
    /\ pointer' = at
    /\ LET found == Plane_get(instructions, at)
       IN last' = [op |-> "get", arg |-> at,
                   output |-> IF found = None THEN None
                              ELSE Some(Deref(instructions, found[1])),
                   state |-> "None"]
    /\ UNCHANGED <<entry, source, phase, locals, err, state, instructions,
                   stacks, register, velocity>>

\* *plane.get_mut(at)? = item; the output is the item the cell held
PlaneSet(at, item) ==
    /\ phase = "function"
    /\ Len(source) < MaxWrites
    /\ pointer' = at
    /\ LET found == Plane_get_mut(instructions, at)
       IN IF found = None
          THEN /\ last' = [op |-> "get_mut", arg |-> at, output |-> None,
                           state |-> "None"]
               /\ UNCHANGED <<instructions, source>>
          ELSE /\ last' = [op |-> "get_mut", arg |-> at,
                           output |-> Some(Deref(instructions, found[1])),
                           state |-> "None"]
               /\ instructions' = Assign(instructions, found[1], item)
               /\ source' = Append(source, SetLine(at, item))
    /\ UNCHANGED <<entry, phase, locals, err, state, stacks, register,
                   velocity>>

NextPlane ==
    \/ \E at \in PlaneCoords \X PlaneCoords : PlaneGet(at)
    \/ \E at \in PlaneCoords \X PlaneCoords, item \in PlaneItems :
          PlaneSet(at, item)

SpecPlane == InitPlane /\ [][NextPlane]_vars

\* ------------------------------------------------------------------ claims
\* what Machine::step fetches in the current state
Fetched == Plane_get(instructions, pointer)
FetchedInstruction == Deref(instructions, Fetched[1])
\* the next call is a step that returns / an input
StepCall == phase = "built" /\ last'.op = "step"
InputCall == phase = "built" /\ last'.op = "input"
\* a step that executes an instruction: Running, pointer inside the plane
Executes == state = "Running" /\ Fetched # None
ExecutingStep == Executes /\ StepCall

\* the pointer q is one cell from p in direction v, modulo the width of usize
OneCell(v, p, q) ==
    LET dx == (q[1] - p[1] + UsizeMod) % UsizeMod
        dy == (q[2] - p[2] + UsizeMod) % UsizeMod
    IN CASE v = 0 -> dx = 1 /\ dy = 0
         [] v = 1 -> dx = UsizeMod - 1 /\ dy = 0
         [] v = 2 -> dx = 0 /\ dy = 1
         [] v = 3 -> dx = 0 /\ dy = UsizeMod - 1
         [] OTHER -> FALSE

\* C1: whenever step executes an Operator or Comparator at an in-bounds
\* pointer (x, y), the stack plane has a stack at (x/4, y/4): the panic
\* "Stack pointer out of range!" is never reached.
C1_StackLookupNeverFails ==
    /\ phase # "panicked"
    /\ (phase = "built" /\ Executes
        /\ FetchedInstruction.fam \in {"Operator", "Comparator"})
       => Plane_get_mut(stacks, stack_pointer(pointer)) # None

\* C2: the stack plane of every machine a loader returns is
\* ceil(width / 4) x ceil(height / 4) of its instruction plane.
C2_StackPlaneDerived ==
    phase = "built" =>
        /\ stacks.width = (instructions.width + 3) \div 4
        /\ stacks.height = (instructions.height + 3) \div 4

\* C3: a step taken while the state is Stopped or InputWaiting returns no
\* output and changes no field of the machine.
C3_StepNoopUnlessRunning ==
    [][(StepCall /\ state # "Running")
        => (last'.output = None /\ UNCHANGED machine_vars)]_vars
C3_Witness ==
    /\ last.op = "step" /\ last.state = "InputWaiting"
    /\ state = "InputWaiting" /\ phase = "built"

\* C4: a step taken while Running with the pointer outside the instruction
\* plane sets the state to Stopped, returns no output and leaves register,
\* pointer, velocity and stacks as they were.
C4_OutOfBoundsStops ==
    [][(StepCall /\ state = "Running" /\ Fetched = None)
        => (/\ state' = "Stopped"
            /\ last'.output = None
            /\ UNCHANGED <<register, pointer, velocity, stacks, instructions>>)]_vars
C4_Witness ==
    /\ last.op = "step" /\ last.state = "Running"
    /\ state = "Stopped" /\ Fetched = None

\* C5: once the state is Stopped, every further step or input leaves it
\* Stopped, returns no output and keeps register, pointer, velocity, stacks.
C5_StoppedIsTerminal ==
    [][(phase = "built" /\ state = "Stopped")
        => (/\ state' = "Stopped"
            /\ last'.output = None
            /\ UNCHANGED <<register, pointer, velocity, stacks, instructions>>)]_vars
C5_Witness ==
    /\ last.op = "input" /\ last.state = "Stopped"
    /\ state = "Stopped" /\ register # last.arg

\* C6: input(value) in state InputWaiting sets the register to value and the
\* state to Running and leaves pointer, velocity and stacks; in any other
\* state it changes nothing.
C6_InputOnlyWhenWaiting ==
    [][InputCall
        => IF state = "InputWaiting"
           THEN /\ register' = last'.arg
                /\ state' = "Running"
                /\ UNCHANGED <<pointer, velocity, stacks, instructions>>
           ELSE UNCHANGED machine_vars]_vars
C6_Witness ==
    /\ last.op = "input" /\ last.state = "Running"
    /\ state = "Running" /\ register # last.arg

\* C7: a step that executes Input returns no output, sets the state to
\* InputWaiting, keeps the register and still moves the pointer one cell in
\* the current direction; the input that follows leaves pointer and velocity,
\* so the next step fetches the cell after the Input cell.
C7_InputAdvances ==
    [][/\ (ExecutingStep /\ FetchedInstruction = IO("Input"))
          => (/\ last'.output = None
              /\ state' = "InputWaiting"
              /\ register' = register
              /\ velocity' = velocity
              /\ stacks' = stacks
              /\ OneCell(velocity, pointer, pointer'))
       /\ (InputCall /\ state = "InputWaiting")
          => (state' = "Running" /\ pointer' = pointer /\ velocity' = velocity)]_vars
C7_Witness ==
    /\ last.op = "step" /\ last.state = "Running"
    /\ state = "InputWaiting" /\ pointer = <<1, 0>>
    /\ Plane_get(instructions, <<0, 0>>) # None
    /\ instructions.rows[1][1] = IO("Input")

\* C8: a step returns an output exactly when the instruction it executed is
\* Print, the output is the register, and Print changes only the pointer.
C8_OnlyPrintOutputs ==
    [][StepCall
        => LET printing == Executes /\ FetchedInstruction = IO("Print")
           IN /\ (last'.output # None) <=> printing
              /\ printing
                 => (/\ last'.output = Some(register)
                     /\ state' = state
                     /\ register' = register
                     /\ velocity' = velocity
                     /\ stacks' = stacks
                     /\ pointer' # pointer)]_vars
C8_Witness ==
    /\ last.op = "step" /\ last.output = Some(register)
    /\ state = "Running" /\ register \in Inputs

\* C9: a step that executes an instruction moves the pointer exactly one
\* cell: x by +1 or -1 for a horizontal direction, y for a vertical one, in
\* the direction the machine has after the instruction's effect.
C9_OneCellInNewDirection ==
    [][ExecutingStep => OneCell(velocity', pointer, pointer')]_vars
C9_Witness ==
    /\ last.op = "step" /\ last.state = "Running"
    /\ velocity = 2 /\ pointer = <<0, 1>>
    /\ instructions.rows[1][1] = Deflector("DownArrow")

\* C10: add_velocity_to_pointer wraps: one less than 0 is the largest usize,
\* one more than the largest usize is 0, and the coordinate of the other
\* axis is returned as it was.
C10_AdvanceWraps ==
    last.op = "add_velocity_to_pointer" =>
        LET v == last.arg[1]
            p == last.arg[2]
            q == last.output[1]
        IN /\ (v \in {0, 1}) => q[2] = p[2]
           /\ (v \in {2, 3}) => q[1] = p[1]
           /\ (v = 0) => q[1] = (IF p[1] = UsizeMax THEN 0 ELSE p[1] + 1)
           /\ (v = 1) => q[1] = (IF p[1] = 0 THEN UsizeMax ELSE p[1] - 1)
           /\ (v = 2) => q[2] = (IF p[2] = UsizeMax THEN 0 ELSE p[2] + 1)
           /\ (v = 3) => q[2] = (IF p[2] = 0 THEN UsizeMax ELSE p[2] - 1)
C10_Witness ==
    /\ last.op = "add_velocity_to_pointer"
    /\ last.arg = <<1, <<0, 5>>>>
    /\ pointer = <<UsizeMax, 5>>

\* the pointer addresses a cell of the instruction plane
InBounds == pointer[1] < instructions.width /\ pointer[2] < instructions.height

\* C11: there is no toroidal wraparound. Once the pointer is outside the
\* instruction plane no call brings it back to an in-bounds coordinate, and
\* a step taken in Running with the pointer outside sets the state to
\* Stopped; this holds whether the pointer left below 0 (wrapping to the top
\* of usize) or past the width or height.
C11_NoWraparound ==
    [][(phase = "built" /\ ~InBounds)
       => /\ ~InBounds'
          /\ (StepCall /\ state = "Running") => state' = "Stopped"]_vars
\* a machine stopped after its pointer left column 0 leftward
C11_Witness ==
    /\ phase = "built" /\ state = "Stopped" /\ last.op = "step"
    /\ instructions.width > 0
    /\ pointer[1] = UsizeMax

\* the loader returns a machine: the call of Machine::new
Constructed == phase = "parsing" /\ phase' = "built"
\* the planes the loader hands to Machine::new
LoaderInstructions ==
    IF entry.name = "load"
    THEN VecPlane_from(locals.instructions, Instruction_default)
    ELSE locals.instructions
LoaderStacks ==
    IF entry.name = "load"
    THEN create_stacks(locals.stack_instructions, LoaderInstructions).v
    ELSE locals.stacks

\* C12: a newly constructed machine is Running, its pointer is (0, 0), its
\* direction is rightward (0b00), its register is ZERO, and its instruction
\* and stack planes are exactly the ones the loader produced.
C12_NewMachine ==
    [][Constructed
       => /\ state' = "Running"
          /\ pointer' = <<0, 0>>
          /\ velocity' = 0
          /\ register' = 0
          /\ instructions' = LoaderInstructions
          /\ stacks' = LoaderStacks]_vars
\* a machine just built from a text with an instruction row and a stack line
C12_Witness ==
    /\ phase = "built" /\ last.op = "none"
    /\ instructions.width > 0
    /\ \E r \in 1..Len(stacks.rows) : \E c \in 1..Len(stacks.rows[r]) :
          Stack_pop(stacks.rows[r][c]).out # None

\* what a returning step does: its output, the state and pointer it leaves
StepGives(output, state_, pointer_) ==
    last'.output = output /\ state' = state_ /\ pointer' = pointer_

\* C13: loaded by load::from_str, the program "p" outputs 0 on its first
\* step, and its second step returns nothing and leaves the machine Stopped;
\* the program ",p" outputs nothing on its first step, 0 on its second and
\* nothing afterwards (the output sequence is [0]), its third step stops
\* the machine, and stack (0,0) then holds exactly 0.  The pointer of these
\* straight-line programs counts the executed steps.
C13_EndToEnd ==
    [][(entry.name = "load" /\ source \in {<<Line_p>>, <<Line_push_p>>})
       => /\ Constructed => pointer' = <<0, 0>> /\ state' = "Running"
          /\ (StepCall /\ source = <<Line_p>>)
             => IF pointer = <<0, 0>>
                THEN StepGives(Some(0), "Running", <<1, 0>>)
                ELSE pointer = <<1, 0>> /\ StepGives(None, "Stopped", <<1, 0>>)
          /\ (StepCall /\ source = <<Line_push_p>>)
             => CASE pointer = <<0, 0>> -> StepGives(None, "Running", <<1, 0>>)
                  [] pointer = <<1, 0>> -> StepGives(Some(0), "Running", <<2, 0>>)
                  [] OTHER -> /\ pointer = <<2, 0>>
                              /\ StepGives(None, "Stopped", <<2, 0>>)
                              /\ stacks'.rows[1][1].v = <<0>>]_vars
\* ",p" has run to its end
C13_Witness ==
    /\ phase = "built" /\ entry.name = "load" /\ source = <<Line_push_p>>
    /\ state = "Stopped" /\ last.op = "step"
    /\ stacks.rows[1][1].v = <<0>>

\* the values a stack holds, bottom first: what popping it to exhaustion
\* returns, reversed
RECURSIVE Contents(_)
Contents(stack) ==
    LET popped == Stack_pop(stack)
    IN IF popped.out = None THEN << >>
       ELSE Append(Contents(popped.stack), popped.out[1])
\* the top of a stack, or dflt when it is empty
TopOr(stack, dflt) ==
    IF Contents(stack) = << >> THEN dflt
    ELSE Contents(stack)[Len(Contents(stack))]
\* the contents below the top
BelowTop(stack) ==
    IF Contents(stack) = << >> THEN << >>
    ELSE SubSeq(Contents(stack), 1, Len(Contents(stack)) - 1)
\* a circular stack that holds CAPACITY values
IsFull(stack) ==
    stack.kind = "ArrayStack" /\ Len(Contents(stack)) = Len(stack.a)
\* the next call applies operator o / comparator c
Applies(o) ==
    phase = "function" /\ last'.op = "Operator_apply" /\ last'.arg.instruction = o
Compares(c) ==
    phase = "function" /\ last'.op = "Comparator_apply" /\ last'.arg.instruction = c
\* the last call applied operator o
Applied(o) == last.op = "Operator_apply" /\ last.arg.instruction = o

\* C14 as stated: Push leaves the register unchanged and puts the register's
\* value on top of the addressed stack, above all its previous contents.
C14_PushOnTop ==
    [][Applies("Push")
       => /\ register' = register
          /\ Contents(Operand') = Append(Contents(Operand), register)]_vars
\* C14: Push leaves the register unchanged and makes the register's value
\* the new top of the addressed stack, above all its previous contents when
\* the stack is unbounded or holds fewer than CAPACITY values, and above all
\* but the oldest of them when it is a circular stack holding CAPACITY values.
C14_PushOnTopUnlessFull ==
    [][Applies("Push")
       => /\ register' = register
          /\ Contents(Operand')
               = Append(IF IsFull(Operand) THEN Tail(Contents(Operand))
                        ELSE Contents(Operand),
                        register)]_vars
\* a Push onto a stack that held values and kept them all
C14_Witness ==
    /\ Applied("Push")
    /\ Contents(last.arg.stack) # << >>
    /\ Contents(Operand) = Append(Contents(last.arg.stack), last.arg.register)

\* C15: Pop sets the register to the value removed from the top of the
\* stack, or to ZERO when the stack is empty, whatever the register held;
\* a non-empty stack loses exactly its top and an empty stack stays empty.
C15_PopToRegister ==
    [][Applies("Pop")
       => /\ register' = TopOr(Operand, 0)
          /\ Contents(Operand') = BelowTop(Operand)]_vars
\* a Pop that replaced the register by a different top, leaving a value below
C15_Witness ==
    /\ Applied("Pop")
    /\ Len(Contents(last.arg.stack)) >= 2
    /\ register = TopOr(last.arg.stack, 0)
    /\ register # last.arg.register
    /\ Len(Contents(Operand)) = Len(Contents(last.arg.stack)) - 1
\* a Pop of an empty stack that cleared a register that was not ZERO
C15_WitnessEmpty ==
    /\ Applied("Pop")
    /\ Contents(last.arg.stack) = << >>
    /\ last.arg.register # 0 /\ register = 0
    /\ Contents(Operand) = << >>

\* C16: Duplicate never changes the register; on a non-empty unbounded stack
\* the top value is then present twice (the stack is one longer), and on an
\* empty stack, of either kind, it pushes a single ZERO (length 1, not 2).
C16_Duplicate ==
    [][Applies("Duplicate")
       => /\ register' = register
          /\ (Operand.kind = "VecStack" /\ Contents(Operand) # << >>)
             => Contents(Operand')
                  = Append(Contents(Operand), TopOr(Operand, 0))
          /\ Contents(Operand) = << >> => Contents(Operand') = <<0>>]_vars
\* a Duplicate on a VecStack whose top was not ZERO
C16_Witness ==
    /\ Applied("Duplicate")
    /\ last.arg.stack.kind = "VecStack"
    /\ Contents(last.arg.stack) # << >> /\ TopOr(last.arg.stack, 0) # 0
    /\ Len(Contents(Operand)) = Len(Contents(last.arg.stack)) + 1
    /\ register = last.arg.register
\* a Duplicate on an empty stack
C16_WitnessEmpty ==
    /\ Applied("Duplicate")
    /\ Contents(last.arg.stack) = << >>
    /\ Contents(Operand) = <<0>>

\* arithmetic of i8 written out: the two's-complement value of an integer,
\* bit k of a number, the number with given bits, the truncated quotient
AsI8(n) == ((n + 128) % 256) - 128
Bit(n, k) == ((n + 256) \div (2 ^ k)) % 2
WithBits(f(_)) == CHOOSE n \in -128..127 : \A k \in 0..7 : Bit(n, k) = f(k)
Quotient(r, d) ==
    CHOOSE q \in -128..128 :
        LET rem == r - q * d
        IN /\ (IF rem < 0 THEN -rem ELSE rem) < (IF d < 0 THEN -d ELSE d)
           /\ (rem = 0 \/ (rem > 0) = (r > 0))
\* register OP value for the six operators of C17
Binary(o, r, v) ==
    CASE o = "Add" -> AsI8(r + v)
      [] o = "Subtract" -> AsI8(r - v)
      [] o = "Multiply" -> AsI8(r * v)
      [] o = "Or" -> LET or(k) == IF Bit(r, k) + Bit(v, k) > 0 THEN 1 ELSE 0
                     IN WithBits(or)
      [] o = "And" -> LET and(k) == Bit(r, k) * Bit(v, k) IN WithBits(and)
      [] o = "Xor" -> LET xor(k) == (Bit(r, k) + Bit(v, k)) % 2 IN WithBits(xor)
BinaryOperators == {"Add", "Subtract", "Multiply", "Or", "And", "Xor"}

\* C17: Add, Subtract, Multiply, Or, And and Xor each pop exactly one value
\* and set the register to (register OP popped), the register on the left.
\* On an empty stack the missing operand is ZERO, and ONE for Multiply, so
\* Add, Subtract, Multiply, Or and Xor leave the register as it was, And
\* sets it to ZERO, and the stack stays empty.
C17_BinaryOperators ==
    [][\A o \in BinaryOperators : Applies(o)
       => /\ register' = Binary(o, register,
                                TopOr(Operand, IF o = "Multiply" THEN 1 ELSE 0))
          /\ Contents(Operand') = BelowTop(Operand)
          /\ Contents(Operand) = << >>
             => /\ register' = IF o = "And" THEN 0 ELSE register
                /\ Contents(Operand') = << >>]_vars
\* 2 - 3 = -1: the register is the left operand, and one value is popped
C17_Witness ==
    /\ Applied("Subtract")
    /\ last.arg.register = 2 /\ TopOr(last.arg.stack, 0) = 3
    /\ register = -1
    /\ Len(Contents(Operand)) = Len(Contents(last.arg.stack)) - 1
\* a Multiply on an empty stack that kept a register that was not ZERO
C17_WitnessEmpty ==
    /\ Applied("Multiply")
    /\ Contents(last.arg.stack) = << >>
    /\ register = 10 /\ last.arg.register = 10

\* C18: Divide pops one value and sets the register to register / popped,
\* where a popped ZERO and an empty stack both count as the divisor ONE: it
\* never divides by zero and leaves the register unchanged in those two
\* cases (register 10 with stack [0] gives 10 and an empty stack).
C18_Divide ==
    [][Applies("Divide")
       => LET popped == TopOr(Operand, 1)
              divisor == IF popped = 0 THEN 1 ELSE popped
          IN /\ register' = AsI8(Quotient(register, divisor))
             /\ Contents(Operand') = BelowTop(Operand)
             /\ popped = 0 => register' = register
             /\ Contents(Operand) = << >> => register' = register]_vars
\* register 10 divided by the stack [0]
C18_Witness ==
    /\ Applied("Divide")
    /\ last.arg.register = 10 /\ Contents(last.arg.stack) = <<0>>
    /\ register = 10 /\ Contents(Operand) = << >>
\* 10 / 3 = 3, truncated
C18_WitnessQuotient ==
    /\ Applied("Divide")
    /\ last.arg.register = 10 /\ TopOr(last.arg.stack, 1) = 3
    /\ register = 3

\* the turns of a direction: right -> down -> left -> up -> right is
\* clockwise (y grows downward), indexed by the direction + 1
Clockwise == <<2, 3, 1, 0>>
CounterClockwise == <<3, 2, 0, 1>>
\* the value a comparator variant compares the register with
ComparedValue(c, stack) == IF c = "Zero" THEN 0 ELSE TopOr(stack, 0)

\* C19: for both comparator variants and every direction, a register less
\* than the compared value turns the direction clockwise, a greater one
\* counter-clockwise, an equal one leaves it; the compared value is ZERO for
\* the Zero variant and the popped top (ZERO if empty) for the Stack variant.
C19_ComparatorTurns ==
    [][\A c \in Comparators : Compares(c)
       => LET value == ComparedValue(c, Operand)
          IN velocity' = IF register < value THEN Clockwise[velocity + 1]
                         ELSE IF register > value
                              THEN CounterClockwise[velocity + 1]
                              ELSE velocity]_vars
\* a Stack comparator that turned left to down, the register above the top
C19_Witness ==
    /\ last.op = "Comparator_apply" /\ last.arg.instruction = "Stack"
    /\ Contents(last.arg.stack) # << >>
    /\ last.arg.register > TopOr(last.arg.stack, 0)
    /\ last.arg.velocity = 1 /\ velocity = 2

\* a further comparison by variant c, of a register less than / greater than
\* the compared value (-1 or 1 against 0, on the stack for the Stack variant)
ThenLess(c, v) ==
    Comparator_apply(c, -1, PushAll(VecStack_new, <<0>>), v).velocity
ThenGreater(c, v) ==
    Comparator_apply(c, 1, PushAll(VecStack_new, <<0>>), v).velocity

\* C20: the two turns undo each other: after a less outcome a greater one
\* gives back the direction before it, and the other way round; a less (or
\* a greater) outcome four times in a row gives back the direction; an
\* equal outcome never changes the direction.
C20_TurnsInverse ==
    last.op = "Comparator_apply"
    => LET before == last.arg.velocity
           value == ComparedValue(last.arg.instruction, last.arg.stack)
       IN \A c \in Comparators :
            /\ last.arg.register < value
               => /\ ThenGreater(c, velocity) = before
                  /\ ThenLess(c, ThenLess(c, ThenLess(c, velocity))) = before
            /\ last.arg.register > value
               => /\ ThenLess(c, velocity) = before
                  /\ ThenGreater(c, ThenGreater(c, ThenGreater(c, velocity)))
                       = before
            /\ last.arg.register = value => velocity = before
\* a less outcome that turned the direction, so that there is a turn to undo
C20_Witness ==
    /\ last.op = "Comparator_apply" /\ last.arg.instruction = "Zero"
    /\ last.arg.register < 0
    /\ velocity # last.arg.velocity
    /\ ThenGreater("Stack", velocity) = last.arg.velocity

\* the next call applies deflector d
Deflects(d) ==
    phase = "function" /\ last'.op = "Deflector_apply" /\ last'.arg.instruction = d
\* where each mirror sends a direction, indexed by the direction + 1
\* (0 right, 1 left, 2 down, 3 up)
OmniTable == <<1, 0, 3, 2>>
ForwardTable == <<3, 2, 1, 0>>
BackTable == <<2, 3, 0, 1>>
Mirrors == {"OmniMirror", "ForwardMirror", "BackMirror"}

\* C21: each arrow gives its own direction (right 0, left 1, down 2, up 3)
\* whatever the direction was; the omni mirror exchanges right with left and
\* down with up, the forward mirror right with up and left with down, the
\* back mirror right with down and left with up; a deflector leaves the
\* register and the stacks as they were.
C21_Deflectors ==
    [][\A d \in Deflectors : Deflects(d)
       => /\ velocity' = CASE d = "RightArrow" -> 0
                            [] d = "LeftArrow" -> 1
                            [] d = "DownArrow" -> 2
                            [] d = "UpArrow" -> 3
                            [] d = "OmniMirror" -> OmniTable[velocity + 1]
                            [] d = "ForwardMirror" -> ForwardTable[velocity + 1]
                            [] d = "BackMirror" -> BackTable[velocity + 1]
          /\ register' = register
          /\ stacks' = stacks]_vars
\* a forward mirror met heading left, with a register and a stack to keep
C21_Witness ==
    /\ last.op = "Deflector_apply" /\ last.arg.instruction = "ForwardMirror"
    /\ last.arg.velocity = 1 /\ velocity = 2
    /\ register # 0 /\ Contents(Operand) # << >>

\* C22: a mirror is its own inverse: for each of the three mirrors and each
\* direction, the direction a mirror has produced is sent back by the same
\* mirror to the direction before it.
C22_MirrorInvolution ==
    (last.op = "Deflector_apply" /\ last.arg.instruction \in Mirrors)
    => Deflector_apply(last.arg.instruction, velocity) = last.arg.velocity
\* a mirror has changed the direction
C22_Witness ==
    /\ last.op = "Deflector_apply" /\ last.arg.instruction \in Mirrors
    /\ velocity # last.arg.velocity
    /\ Deflector_apply(last.arg.instruction, velocity) = last.arg.velocity

\* the number of push calls a script begins with
RECURSIVE LeadingPushes(_)
LeadingPushes(script) ==
    IF script = << >> \/ script[1].call # "push" THEN 0
    ELSE 1 + LeadingPushes(Tail(script))
\* a script of pushes followed by nothing but pops
PushesThenPops(script) ==
    \A k \in (LeadingPushes(script) + 1)..Len(script) : script[k].call = "pop"

\* C23: on an ArrayStack of capacity C that starts empty, after C + k pushes
\* (k >= 1) the first C pops return the last C values pushed, newest first
\* (not the first C), and the pop after them returns None.
C23_Overflow ==
    (entry.name = "ArrayStack" /\ PushesThenPops(source)
     /\ LeadingPushes(source) > entry.CAPACITY)
    => LET n == LeadingPushes(source)
       IN \A j \in 1..(Len(source) - n) :
            /\ j <= entry.CAPACITY => source[n + j].item = source[n - j + 1].item
            /\ j = entry.CAPACITY + 1 => source[n + j].item = None
\* capacity 3: four pushes whose first and last values differ, then four pops
C23_Witness ==
    /\ entry.name = "ArrayStack" /\ entry.CAPACITY = 3
    /\ PushesThenPops(source) /\ LeadingPushes(source) = 4 /\ Len(source) = 8
    /\ source[1].item # source[4].item
    /\ source[5].item = source[4].item
    /\ source[8].item = None

\* the reference stack after a script: a sequence that appends on push,
\* drops its oldest value when it would grow past the capacity, and loses
\* its newest value on pop
RECURSIVE Reference(_, _)
Reference(script, capacity) ==
    IF script = << >> THEN << >>
    ELSE LET before == Reference(SubSeq(script, 1, Len(script) - 1), capacity)
             line == script[Len(script)]
         IN IF line.call = "push"
            THEN IF Len(before) + 1 > capacity
                 THEN Append(Tail(before), line.item[1])
                 ELSE Append(before, line.item[1])
            ELSE IF before = << >> THEN << >>
                 ELSE SubSeq(before, 1, Len(before) - 1)

\* C24: whatever pushes and pops an ArrayStack of capacity C >= 1 has seen,
\* pops of the empty stack and pushes after an overflow included, a pop
\* returns the newest value of the reference stack, or None when the
\* reference stack is empty.
C24_RefinesReference ==
    [][(entry.name = "ArrayStack" /\ last'.op = "pop")
       => LET model == Reference(source, entry.CAPACITY)
          IN last'.output = IF model = << >> THEN None
                            ELSE Some(model[Len(model)])]_vars
\* a value popped from a stack that had overflowed, after a pop of the empty
\* stack earlier in the script
C24_Witness ==
    /\ entry.name = "ArrayStack" /\ last.op = "pop" /\ last.output # None
    /\ \E k \in 1..Len(source) : source[k] = PopLine(None)
    /\ \E k \in 1..Len(source) :
          /\ source[k].call = "push"
          /\ Len(Reference(SubSeq(source, 1, k - 1), entry.CAPACITY))
               = entry.CAPACITY

\* the width and height a plane test expects of its plane
ExpectedWidth ==
    IF entry.name = "VecPlane::from"
    THEN IF entry.rows = << >> THEN 0
         ELSE CHOOSE w \in {Len(entry.rows[r]) : r \in 1..Len(entry.rows)} :
                \A r \in 1..Len(entry.rows) : Len(entry.rows[r]) <= w
    ELSE entry.width
ExpectedHeight ==
    IF entry.name = "VecPlane::from" THEN Len(entry.rows) ELSE entry.height
\* the item the cell at a coordinate holds: the last one set there, else the
\* one the plane was made from, else the default
Held(at) ==
    LET sets == {k \in 1..Len(source) : source[k].pointer = at}
    IN IF sets # {}
       THEN source[CHOOSE k \in sets : \A j \in sets : j <= k].item
       ELSE IF /\ entry.name = "VecPlane::from"
               /\ at[1] < Len(entry.rows[at[2] + 1])
            THEN entry.rows[at[2] + 1][at[1] + 1]
            ELSE Space

\* C25: for VecPlane and ArrayPlane alike, get and get_mut at a coordinate
\* with x >= width or y >= height return None, and at a coordinate with
\* x < width and y < height they return a cell, which holds the default
\* value if nothing was written to it.
C25_PlaneBounds ==
    [][(entry.name \in {"VecPlane::new", "ArrayPlane::new", "VecPlane::from"}
        /\ last'.op \in {"get", "get_mut"})
       => LET at == last'.arg
          IN IF at[1] >= ExpectedWidth \/ at[2] >= ExpectedHeight
             THEN last'.output = None /\ instructions' = instructions
             ELSE last'.output = Some(Held(at))]_vars
\* a get just past the right edge of a VecPlane that has cells
C25_Witness ==
    /\ entry.name \in {"VecPlane::new", "VecPlane::from"}
    /\ last.op = "get" /\ last.output = None
    /\ ExpectedWidth > 0 /\ ExpectedHeight > 0
    /\ last.arg = <<ExpectedWidth, 0>>
\* a get of a cell never written, on an ArrayPlane written elsewhere
C25_WitnessDefault ==
    /\ entry.name = "ArrayPlane::new"
    /\ last.op = "get" /\ last.output = Some(Space)
    /\ source # << >>

\* a loader has parsed one more line and goes on
ParsedLine == phase = "parsing" /\ phase' = "parsing" /\ source' # source
\* the line just parsed
NewLine == source'[Len(source')]
\* a line that begins with the given character
BeginsWith(line, char) == line # << >> /\ line[1] = char
\* the instruction-row counter: y in build::from_str, the length of the
\* vector of rows in load::from_str
RowCounter == IF entry.name = "load" THEN Len(locals.instructions) ELSE locals.y
\* the instruction rows a loader holds, and the instruction at column x
\* (from 0) of row y (from 0)
LoaderRows ==
    IF entry.name = "load" THEN locals.instructions ELSE locals.instructions.rows
LoaderCell(x, y) == LoaderRows[y + 1][x + 1]
\* the characters of an instruction row, up to a '#'
RowChars(line) == take_while_not(line, "#")

\* C26: in both loaders the instruction-row counter starts at 0, is left
\* alone by a line that begins with '#' and by a line that begins with 's',
\* and grows by exactly one with every other line, the empty line included;
\* so a line that is neither comment nor stack line becomes the row whose
\* number is the count of such lines before it.
C26_RowCounter ==
    [][ParsedLine
       => /\ source = << >> => RowCounter = 0
          /\ RowCounter' = IF BeginsWith(NewLine, "#") \/ BeginsWith(NewLine, "s")
                           THEN RowCounter
                           ELSE RowCounter + 1
          /\ ~(BeginsWith(NewLine, "#") \/ BeginsWith(NewLine, "s"))
             => \A x \in 1..Len(RowChars(NewLine)) :
                   LoaderRows'[RowCounter + 1][x]
                     = Instruction_try_from(NewLine[x]).v]_vars
\* the fixed-size loader has put "p" in row 1, after an empty line
C26_Witness ==
    /\ phase = "parsing" /\ entry.name = "build"
    /\ source = <<Line_empty, Line_p>>
    /\ RowCounter = 2
    /\ LoaderCell(0, 1) = IO("Print")
\* the growable loader has put "p" in row 0, after a stack line
C26_WitnessLoad ==
    /\ phase = "parsing" /\ entry.name = "load"
    /\ source = <<Line_stack00, Line_p>>
    /\ RowCounter = 1
    /\ LoaderCell(0, 0) = IO("Print")

\* the numbers a line of Lines names for the stack at stack-plane
\* coordinate (sx, sy), in the order written
NumbersFor(line, sx, sy) ==
    CASE line = Line_stack00 /\ <<sx, sy>> = <<0, 0>> -> <<5, 10>>
      [] line = Line_stack00_7 /\ <<sx, sy>> = <<0, 0>> -> <<7>>
      [] line = Line_stack10 /\ <<sx, sy>> = <<1, 0>> -> <<7>>
      [] OTHER -> << >>
\* the numbers a text names for a stack, in text order
RECURSIVE TextNumbersFor(_, _, _)
TextNumbersFor(text, sx, sy) ==
    IF text = << >> THEN << >>
    ELSE NumbersFor(text[1], sx, sy) \o TextNumbersFor(Tail(text), sx, sy)
\* what a stack keeps of the values pushed on it: all of them, or the last
\* STACK_CAPACITY of them in the fixed-size loader
Kept(values) ==
    IF entry.name = "load" \/ Len(values) <= entry.STACK_CAPACITY THEN values
    ELSE SubSeq(values, Len(values) - entry.STACK_CAPACITY + 1, Len(values))

C27_WitnessSameStack ==
    /\ phase = "built" /\ last.op = "none"
    /\ source = <<Line_stack00, Line_stack00_7>>
    /\ Contents(stacks.rows[1][1]) = <<10, 7>>
\* "s 1 0 7" has reached stack (1,0) of a plane five cells wide
C27_WitnessDirect ==
    /\ phase = "built" /\ entry.name = "load"
    /\ stacks.width = 2
    /\ Contents(stacks.rows[1][2]) = <<7>>

\* the lines of a text that are instruction rows, cut at their '#'
RECURSIVE CodeRows(_)
CodeRows(text) ==
    IF text = << >> THEN << >>
    ELSE IF BeginsWith(text[1], "#") \/ BeginsWith(text[1], "s")
         THEN CodeRows(Tail(text))
         ELSE <<RowChars(text[1])>> \o CodeRows(Tail(text))
\* the length of the longest of some rows
Longest(rows) ==
    IF rows = << >> THEN 0
    ELSE LET lengths == {Len(rows[r]) : r \in 1..Len(rows)}
         IN CHOOSE w \in lengths : \A l \in lengths : l <= w

\* C28: the instruction plane of the growable loader is as wide as the
\* longest instruction row of the text and as high as the number of its
\* instruction rows; a cell past the end of a shorter row reads as the
\* blank instruction, a cell of a row as the instruction written there; and
\* the loader fails on no text with an instruction out of range.
C28_GrowablePlane ==
    [][entry.name = "load"
       => /\ Constructed
             => LET rows == CodeRows(source)
                IN /\ instructions'.width = Longest(rows)
                   /\ instructions'.height = Len(rows)
                   /\ \A y \in 0..(Len(rows) - 1) : \A x \in 0..(Longest(rows) - 1) :
                         /\ Plane_get(instructions', <<x, y>>) # None
                         /\ Deref(instructions', Plane_get(instructions', <<x, y>>)[1])
                              = IF x < Len(rows[y + 1])
                                THEN Instruction_try_from(rows[y + 1][x + 1]).v
                                ELSE Space
          /\ phase' = "failed" => err'.kind # "InstructionOutOfRange"]_vars
\* a plane five wide whose second row has one instruction: (4, 1) is blank
C28_Witness ==
    /\ phase = "built" /\ entry.name = "load"
    /\ source = <<Line_input_cmp, Line_p>>
    /\ instructions.width = 5 /\ instructions.height = 2
    /\ Deref(instructions, Plane_get(instructions, <<4, 1>>)[1]) = Space
    /\ Deref(instructions, Plane_get(instructions, <<0, 1>>)[1]) = IO("Print")

\* the characters that are instructions
InstructionChars ==
    {" ", ">", "<", "v", "^", "o", "/", "\\", ",", ".", "d", "+", "-", "*",
     "~", "!", "|", "&", ":", "z", "c", "p", "i"}
\* the fixed-size loader is handed one more line, an instruction row
BuildsRow ==
    /\ phase = "parsing" /\ entry.name = "build" /\ source' # source
    /\ NewLine # << >>
    /\ ~(BeginsWith(NewLine, "#") \/ BeginsWith(NewLine, "s"))
\* that row has a character outside WIDTH x HEIGHT
Overflows == Len(NewLine) > entry.WIDTH \/ locals.y >= entry.HEIGHT
\* the place in the row (from 1) of its first character outside
FirstOutside == IF locals.y >= entry.HEIGHT THEN 1 ELSE entry.WIDTH + 1

\* C29 as stated: in the fixed-size loader a row with a character at column
\* x >= WIDTH, or a non-empty row with index y >= HEIGHT, fails with
\* InstructionOutOfRange and no machine is returned; a row wholly inside
\* WIDTH x HEIGHT never gets this error.
C29_OutOfRangeError ==
    [][BuildsRow
       => IF Overflows
          THEN phase' = "failed" /\ err'.kind = "InstructionOutOfRange"
          ELSE ~(phase' = "failed" /\ err'.kind = "InstructionOutOfRange")]_vars
\* C29: in the fixed-size loader a row with a character at column
\* x >= WIDTH, or a non-empty row with index y >= HEIGHT, makes construction
\* fail and no machine is returned: with InstructionOutOfRange when every
\* character of the row up to and including the first one outside is an
\* instruction character, with InvalidInstruction otherwise; a row wholly
\* inside WIDTH x HEIGHT never gets InstructionOutOfRange.
C29_OutOfRangeUnlessInvalid ==
    [][BuildsRow
       => IF Overflows
          THEN /\ phase' = "failed"
               /\ err'.kind
                    = IF \A k \in 1..FirstOutside : NewLine[k] \in InstructionChars
                      THEN "InstructionOutOfRange"
                      ELSE "InvalidInstruction"
          ELSE ~(phase' = "failed" /\ err'.kind = "InstructionOutOfRange")]_vars
\* ",p" has failed in a plane one cell wide
C29_Witness ==
    /\ phase = "failed" /\ entry.name = "build" /\ entry.WIDTH = 1
    /\ source = <<Line_push_p>>
    /\ err.kind = "InstructionOutOfRange"
\* a second row has failed in a plane one cell high
C29_WitnessRow ==
    /\ phase = "failed" /\ entry.name = "build" /\ entry.HEIGHT = 1
    /\ source = <<Line_p, Line_p>>
    /\ err.kind = "InstructionOutOfRange"

\* the tokens of a stack line: what follows the 's', up to a '#', split at
\* whitespace
StackTokens(line) == split_whitespace(take_while_not(Tail(line), "#"))
\* a loader is handed one more line, a stack line
ParsesStackLine ==
    phase = "parsing" /\ source' # source /\ BeginsWith(NewLine, "s")

\* C30: in either loader a stack line with fewer than two coordinate tokens
\* before its end or its '#' makes construction fail with the
\* MissingStackPointer error.
C30_MissingStackPointer ==
    [][(ParsesStackLine /\ Len(StackTokens(NewLine)) < 2)
       => phase' = "failed" /\ err'.kind = "MissingStackPointer"]_vars

\* the stack-plane coordinate a stack line of Lines names
Named(line) ==
    CASE line = Line_stack00 -> <<0, 0>>
      [] line = Line_stack00_7 -> <<0, 0>>
      [] line = Line_stack10 -> <<1, 0>>
\* the stack lines of Lines that name a coordinate
NamingLines == {Line_stack00, Line_stack00_7, Line_stack10}
\* the size of the stack plane a loader checks stack lines against: the
\* constants of the fixed-size loader, a quarter (rounded up) of the
\* instruction grid of the text in the growable loader
CheckedWidth ==
    IF entry.name = "build" THEN entry.STACK_WIDTH
    ELSE (Longest(CodeRows(source)) + 3) \div 4
CheckedHeight ==
    IF entry.name = "build" THEN entry.STACK_HEIGHT
    ELSE (Len(CodeRows(source)) + 3) \div 4
\* a line names a coordinate outside a stack plane of the given size
Outside(line, width, height) ==
    /\ line \in NamingLines
    /\ Named(line)[1] >= width \/ Named(line)[2] >= height
\* the growable loader has read the whole text and returns
LoadReturns ==
    phase = "parsing" /\ entry.name = "load" /\ source' = source
      /\ phase' # "parsing"

\* C31: a stack line whose coordinate (x, y) is outside the stack plane
\* (x >= width or y >= height) makes construction fail with the
\* StackPointerOutOfRange error carrying (x, y): the fixed-size loader when it
\* reads the line, against STACK_WIDTH x STACK_HEIGHT; the growable loader
\* when it returns, against the plane derived from the final instruction
\* grid, with the first such line of the text.  So "s 1 0 7" is accepted by
\* the growable loader exactly when the grid is at least 5 columns wide and
\* has at least one row.
C31_StackPointerOutOfRange ==
    [][/\ (ParsesStackLine /\ entry.name = "build" /\ NewLine \in NamingLines)
          => IF Outside(NewLine, entry.STACK_WIDTH, entry.STACK_HEIGHT)
             THEN /\ phase' = "failed"
                  /\ err' = [kind |-> "StackPointerOutOfRange",
                             pointer |-> Named(NewLine)]
             ELSE phase' = "parsing"
       /\ LoadReturns
          => LET bad == {l \in 1..Len(source) :
                           Outside(source[l], CheckedWidth, CheckedHeight)}
             IN /\ bad # {}
                   => /\ phase' = "failed"
                      /\ err' = [kind |-> "StackPointerOutOfRange",
                                 pointer |-> Named(source[CHOOSE l \in bad :
                                                   \A m \in bad : l <= m])]
                /\ bad = {} => phase' = "built"
                /\ (\E l \in 1..Len(source) : source[l] = Line_stack10)
                   => (phase' = "built"
                         <=> /\ Longest(CodeRows(source)) >= 5
                             /\ Len(CodeRows(source)) >= 1)]_vars
\* the growable loader has refused "s 1 0 7" with a grid one column wide
C31_Witness ==
    /\ phase = "failed" /\ entry.name = "load"
    /\ source = <<Line_stack10, Line_p>>
    /\ err = [kind |-> "StackPointerOutOfRange", pointer |-> <<1, 0>>]
\* the growable loader has accepted "s 1 0 7" with a grid five columns wide
C31_WitnessAccepted ==
    /\ phase = "built" /\ entry.name = "load"
    /\ source = <<Line_stack10, Line_input_cmp>>
\* the fixed-size loader has refused "s 1 0 7" with STACK_WIDTH 1
C31_WitnessBuild ==
    /\ phase = "failed" /\ entry.name = "build" /\ entry.STACK_WIDTH = 1
    /\ source[Len(source)] = Line_stack10
    /\ err = [kind |-> "StackPointerOutOfRange", pointer |-> <<1, 0>>]
\* the growable loader has refused "s 0 0 7" for want of an instruction row
C31_WitnessNoRow ==
    /\ phase = "failed" /\ entry.name = "load"
    /\ source = <<Line_stack00_7>>
    /\ err = [kind |-> "StackPointerOutOfRange", pointer |-> <<0, 0>>]

\* a loader is handed one more line, an instruction row
ParsesRow ==
    /\ phase = "parsing" /\ source' # source
    /\ NewLine # << >>
    /\ ~(BeginsWith(NewLine, "#") \/ BeginsWith(NewLine, "s"))
\* the characters of a row a loader decodes: all of them in the fixed-size
\* loader, those before a '#' in the growable loader
Decoded(line) == IF entry.name = "load" THEN RowChars(line) ELSE line
\* the places (from 1) of the characters of a row that are no instructions
Unknown(line) ==
    {k \in 1..Len(Decoded(line)) : Decoded(line)[k] \notin InstructionChars}
First(places) == CHOOSE k \in places : \A j \in places : k <= j
\* the text so far has no row with a character that is no instruction
AllKnown(text) ==
    \A l \in 1..Len(text) :
        (text[l] = << >> \/ BeginsWith(text[l], "#") \/ BeginsWith(text[l], "s"))
          \/ Unknown(text[l]) = {}
\* nothing of a machine exists
NoMachineBuilt ==
    /\ state = NoMachine.state
    /\ instructions = NoMachine.instructions
    /\ stacks = NoMachine.stacks

\* C32 as stated: in both loaders an instruction row with a character
\* outside the instruction character table makes construction fail with the
\* InvalidInstruction error naming that character.
C32_UnknownInstruction ==
    [][(ParsesRow /\ Unknown(NewLine) # {})
       => /\ phase' = "failed"
          /\ err' = [kind |-> "InvalidInstruction",
                     char |-> Decoded(NewLine)[First(Unknown(NewLine))]]]_vars

\* C32: in both loaders an instruction row with a character outside the
\* instruction character table makes construction fail: with the
\* InvalidInstruction error naming the first such character, unless, in the
\* fixed-size loader, a character before it lies outside WIDTH x HEIGHT, and
\* then with InstructionOutOfRange.  Construction is aborted: after an error
\* the loader reads no further line and nothing of a machine exists, and a
\* machine is built only from a text all of whose rows decode.
C32_UnknownInstructionInRange ==
    [][/\ (ParsesRow /\ Unknown(NewLine) # {})
          => LET k == First(Unknown(NewLine))
             IN /\ phase' = "failed"
                /\ IF entry.name = "build" /\ k > 1
                      /\ (k - 1 > entry.WIDTH \/ locals.y >= entry.HEIGHT)
                   THEN err'.kind = "InstructionOutOfRange"
                   ELSE err' = [kind |-> "InvalidInstruction",
                                char |-> Decoded(NewLine)[k]]
       /\ phase' = "failed" => NoMachineBuilt'
       /\ phase = "failed" => FALSE
       /\ Constructed => AllKnown(source)]_vars
\* the fixed-size loader has refused "p?" as its second row, naming '?'
C32_Witness ==
    /\ phase = "failed" /\ entry.name = "build"
    /\ source = <<Line_p, Line_unknown>>
    /\ err = [kind |-> "InvalidInstruction", char |-> "?"]
    /\ NoMachineBuilt
\* the growable loader has refused "p?" as its second row, naming '?'
C32_WitnessLoad ==
    /\ phase = "failed" /\ entry.name = "load"
    /\ source = <<Line_p, Line_unknown>>
    /\ err = [kind |-> "InvalidInstruction", char |-> "?"]
    /\ NoMachineBuilt
\* the fixed-size loader has refused "p?" below its last row, for the 'p'
C32_WitnessOutOfRange ==
    /\ phase = "failed" /\ entry.name = "build" /\ entry.HEIGHT = 1
    /\ source = <<Line_p, Line_unknown>>
    /\ err.kind = "InstructionOutOfRange"

\* ------------------------------------- characters to instructions and back
\* the conversions between characters and instructions, applied in turn:
\* source holds the characters (given or produced), locals the instructions
MaxConversions == 2
\* every instruction
InstructionSet ==
    {Space} \cup {Deflector(d) : d \in Deflectors}
            \cup {Operator(o) : o \in Operators}
            \cup {Comparator(c) : c \in Comparators}
            \cup {IO(io) : io \in IOs}
\* the characters handed to Instruction::try_from: those of the table and
\* some others
OtherChars == {"#", "s", "?", "a", "0", "\t", "O", "Z", "C", "P", "I", "V"}
CodecChars == InstructionChars \cup OtherChars

InitCodec ==
    /\ entry = [name |-> "codec"]
    /\ \/ source \in {<<c>> : c \in CodecChars} /\ locals = << >>
       \/ source = << >> /\ locals \in {<<i>> : i \in InstructionSet}
    /\ phase = "function"
    /\ err = NoError
    /\ state = NoMachine.state
    /\ instructions = NoMachine.instructions
    /\ stacks = NoMachine.stacks
    /\ register = NoMachine.register
    /\ pointer = Pointer_default
    /\ velocity = Velocity_default
    /\ last = NoCall

\* Instruction::try_from(char), of the newest character
TryFrom ==
    /\ phase = "function"
    /\ Len(source) + Len(locals) <= MaxConversions
    /\ (last.op = "none" /\ source # << >>) \/ last.op = "into"
    /\ LET value == source[Len(source)]
           r == Instruction_try_from(value)
       IN /\ last' = [op |-> "try_from", arg |-> value, output |-> r,
                      state |-> "None"]
          /\ IF r.ok
             THEN locals' = Append(locals, r.v) /\ UNCHANGED err
             ELSE err' = r.v /\ UNCHANGED locals
    /\ UNCHANGED <<entry, source, phase, machine_vars>>

\* char::from(instruction), of the newest instruction
Into ==
    /\ phase = "function"
    /\ Len(source) + Len(locals) <= MaxConversions
    /\ \/ last.op = "none" /\ locals # << >>
       \/ last.op = "try_from" /\ last.output.ok
    /\ LET val == locals[Len(locals)]
           c == Instruction_into_char(val)
       IN /\ last' = [op |-> "into", arg |-> val, output |-> c,
                      state |-> "None"]
          /\ source' = Append(source, c)
    /\ UNCHANGED <<entry, phase, locals, err, machine_vars>>

NextCodec == TryFrom \/ Into

SpecCodec == InitCodec /\ [][NextCodec]_vars

\* C33: the conversions between the 23 instruction characters and the 23
\* instructions are inverse bijections: an instruction written as a
\* character and read back is the same instruction, a character of the table
\* read as an instruction and written back is the same character, and every
\* character outside the table fails to decode, with the InvalidInstruction
\* error naming it.
C33_Bijection ==
    /\ Cardinality(InstructionChars) = 23
    /\ Cardinality(InstructionSet) = 23
    /\ \A k \in 1..Len(source) : source[k] = source[1]
    /\ \A k \in 1..Len(locals) : locals[k] = locals[1]
    /\ last.op = "into" => last.output \in InstructionChars
    /\ last.op = "try_from"
       => /\ last.output.ok <=> last.arg \in InstructionChars
          /\ last.output.ok => last.output.v \in InstructionSet
          /\ ~last.output.ok
             => err = [kind |-> "InvalidInstruction", char |-> last.arg]
\* the back mirror has been read from its character and written back
C33_Witness ==
    /\ entry.name = "codec" /\ last.op = "into"
    /\ source = <<"\\", "\\">>
    /\ locals = <<Deflector("BackMirror")>>
\* the Input instruction has been written and read back
C33_WitnessEncoded ==
    /\ entry.name = "codec" /\ last.op = "try_from"
    /\ source = <<"i">>
    /\ locals = <<IO("Input"), IO("Input")>>
\* an upper-case 'P' has failed to decode
C33_WitnessUnknown ==
    /\ entry.name = "codec" /\ last.op = "try_from"
    /\ source = <<"P">> /\ locals = << >>
    /\ err = [kind |-> "InvalidInstruction", char |-> "P"]

\* the places (from 1) of the '#' characters of a line
Hashes(line) == {k \in 1..Len(line) : line[k] = "#"}
\* a loader is handed an instruction row with a '#' after its first
\* character, and instruction characters before it
ParsesRowWithHash ==
    /\ ParsesRow
    /\ Hashes(NewLine) # {}
    /\ \A j \in 1..(First(Hashes(NewLine)) - 1) : NewLine[j] \in InstructionChars

\* C34: the loaders differ on a '#' inside an instruction row.  The growable
\* loader cuts the row at the '#': the row is accepted whatever follows the
\* '#', its length is the number of characters before the '#' and its cells
\* are those characters decoded.  The fixed-size loader hands the '#' to
\* the decoder like every other character of the row, and as '#' is no
\* instruction character construction fails with InvalidInstruction naming
\* '#' (with InstructionOutOfRange when a character before the '#' is already
\* outside WIDTH x HEIGHT): it never builds the row.
C34_MidLineComment ==
    [][ParsesRowWithHash
       => LET k == First(Hashes(NewLine))
          IN IF entry.name = "load"
             THEN /\ phase' = "parsing"
                  /\ Len(locals'.instructions) = Len(locals.instructions) + 1
                  /\ Len(locals'.instructions[Len(locals'.instructions)]) = k - 1
                  /\ \A j \in 1..(k - 1) :
                        Instruction_into_char(
                            locals'.instructions[Len(locals'.instructions)][j])
                          = NewLine[j]
             ELSE /\ phase' = "failed"
                  /\ IF k - 1 > entry.WIDTH \/ locals.y >= entry.HEIGHT
                     THEN err'.kind = "InstructionOutOfRange"
                     ELSE err' = [kind |-> "InvalidInstruction", char |-> "#"]]_vars
\* the growable loader has built ".#?" as a row of one Pop
C34_Witness ==
    /\ phase = "built" /\ entry.name = "load"
    /\ source = <<Line_midcomment>>
    /\ instructions.width = 1 /\ instructions.height = 1
    /\ Deref(instructions, Plane_get(instructions, <<0, 0>>)[1]) = Operator("Pop")
\* the fixed-size loader has refused ".#?", naming '#'
C34_WitnessBuild ==
    /\ phase = "failed" /\ entry.name = "build"
    /\ source = <<Line_midcomment>>
    /\ err = [kind |-> "InvalidInstruction", char |-> "#"]

\* C35: the Zero comparator neither pushes nor pops, whatever the register:
\* the stacks are as before.  The Stack comparator pops exactly one value,
\* the top, whether the register is less than, equal to or greater than it:
\* what is left is what was below the top; and an empty stack stays empty.
\* Neither comparator changes the register.
C35_ComparatorStack ==
    [][/\ Compares("Zero") => stacks' = stacks
       /\ Compares("Stack")
          => /\ Contents(Operand') = BelowTop(Operand)
             /\ Contents(Operand) # << >>
                => Len(Contents(Operand')) = Len(Contents(Operand)) - 1
             /\ Contents(Operand) = << >> => Contents(Operand') = << >>
       /\ \A c \in Comparators : Compares(c) => register' = register]_vars
\* a Stack comparator has consumed a top equal to the register
C35_Witness ==
    /\ last.op = "Comparator_apply" /\ last.arg.instruction = "Stack"
    /\ Len(Contents(last.arg.stack)) = 2
    /\ last.arg.register = TopOr(last.arg.stack, 0)
    /\ Contents(Operand) = BelowTop(last.arg.stack)
\* a Stack comparator has consumed a top less than / greater than the register
C35_WitnessLess ==
    /\ last.op = "Comparator_apply" /\ last.arg.instruction = "Stack"
    /\ Contents(last.arg.stack) # << >>
    /\ last.arg.register < TopOr(last.arg.stack, 0)
    /\ Len(Contents(Operand)) = Len(Contents(last.arg.stack)) - 1
C35_WitnessGreater ==
    /\ last.op = "Comparator_apply" /\ last.arg.instruction = "Stack"
    /\ Contents(last.arg.stack) # << >>
    /\ last.arg.register > TopOr(last.arg.stack, 0)
    /\ Len(Contents(Operand)) = Len(Contents(last.arg.stack)) - 1
\* a Stack comparator has left an empty stack empty
C35_WitnessEmpty ==
    /\ last.op = "Comparator_apply" /\ last.arg.instruction = "Stack"
    /\ Contents(last.arg.stack) = << >> /\ Contents(Operand) = << >>
\* a Zero comparator has turned, beside a stack of two values
C35_WitnessZero ==
    /\ last.op = "Comparator_apply" /\ last.arg.instruction = "Zero"
    /\ last.arg.register # 0 /\ velocity # last.arg.velocity
    /\ Len(Contents(Operand)) = 2 /\ Operand = last.arg.stack

\* C36: in every reachable state the stored direction is one of 0b00, 0b01,
\* 0b10, 0b11: it starts as 0, and from the direction of any reachable
\* machine every deflector and every comparator outcome (less, equal,
\* greater, of either variant) gives a direction in 0..3 again.
C36_DirectionRange ==
    /\ velocity \in {0, 1, 2, 3}
    /\ phase = "built"
       => /\ \A d \in Deflectors : Deflector_apply(d, velocity) \in {0, 1, 2, 3}
          /\ \A c \in Comparators : \A r \in {-1, 0, 1} :
                Comparator_apply(c, r, VecStack_new, velocity).velocity
                  \in {0, 1, 2, 3}
\* a step has turned the machine upwards
C36_Witness ==
    /\ phase = "built" /\ last.op = "step"
    /\ velocity = 3

\* C37: the run state of a machine changes in three ways only: from
\* Running to Stopped, by a step that finds the pointer outside the
\* instructions; from Running to InputWaiting, by a step that executes
\* Input; from InputWaiting to Running, by an input.  Each of these calls
\* makes its transition, InputWaiting never turns into Stopped, and
\* Stopped is never left.
C37_StateTransitions ==
    [][phase = "built"
       => /\ \/ state' = state
             \/ /\ state = "Running" /\ state' = "Stopped"
                /\ StepCall /\ Fetched = None
             \/ /\ state = "Running" /\ state' = "InputWaiting"
                /\ StepCall /\ Fetched # None
                /\ FetchedInstruction = IO("Input")
             \/ /\ state = "InputWaiting" /\ state' = "Running"
                /\ InputCall
          /\ (StepCall /\ state = "Running" /\ Fetched = None)
             => state' = "Stopped"
          /\ (ExecutingStep /\ FetchedInstruction = IO("Input"))
             => state' = "InputWaiting"
          /\ (InputCall /\ state = "InputWaiting") => state' = "Running"
          /\ state = "Stopped" => state' = "Stopped"
          /\ state = "InputWaiting" => state' # "Stopped"]_vars
\* a machine that waited for input, ran on and has stopped
C37_Witness ==
    /\ phase = "built" /\ source = <<Line_input_p>>
    /\ state = "Stopped" /\ last.op = "step" /\ last.state = "Running"
    /\ register \in Inputs
\* a machine has taken its input and runs again
C37_WitnessInput ==
    /\ phase = "built" /\ state = "Running"
    /\ last.op = "input" /\ last.state = "InputWaiting"
\* a stopped machine has been stepped and handed input, and is stopped
C37_WitnessStopped ==
    /\ phase = "built" /\ state = "Stopped"
    /\ last.op = "input" /\ last.state = "Stopped"

\* the stack-plane coordinates (from 0) of the stacks a call changes
ChangedStacks ==
    {at \in (0..(stacks.width - 1)) \X (0..(stacks.height - 1)) :
        stacks'.rows[at[2] + 1][at[1] + 1] # stacks.rows[at[2] + 1][at[1] + 1]}

\* C38: a step that executes an Operator or a Comparator at pointer (x, y)
\* changes no stack but the one at (x / 4, y / 4); a step that executes a
\* blank or a deflector changes no stack and not the register; no other call
\* changes a stack; and no step and no input changes the instructions or
\* the size of the stack plane.
C38_Frame ==
    [][phase = "built"
       => /\ instructions' = instructions
          /\ [stacks' EXCEPT !.rows = stacks.rows] = stacks
          /\ ChangedStacks # {}
             => /\ ExecutingStep
                /\ FetchedInstruction.fam \in {"Operator", "Comparator"}
                /\ ChangedStacks = {<<pointer[1] \div 4, pointer[2] \div 4>>}
          /\ (ExecutingStep /\ FetchedInstruction.fam \in {"Space", "Deflector"})
             => stacks' = stacks /\ register' = register]_vars
\* the comparator in cell (4, 0) has taken the 7 of stack (1, 0)
C38_Witness ==
    /\ phase = "built" /\ entry.name = "load"
    /\ source = <<Line_stack10, Line_input_cmp>>
    /\ last.op = "step" /\ last.state = "Running"
    /\ stacks.width = 2
    /\ Contents(stacks.rows[1][2]) = << >>
    /\ pointer \notin {<<k, 0>> : k \in 0..4}
\* a deflector has been executed beside a stack that holds values
C38_WitnessDeflector ==
    /\ phase = "built" /\ source = <<Line_stack00, Line_down>>
    /\ last.op = "step" /\ velocity = 2 /\ pointer = <<0, 1>>
    /\ Contents(stacks.rows[1][1]) = <<5, 10>>

\* ------------------------------------------------------- the driver's loop
\* run_machine of main: a machine loaded by load::from_str is stepped while
\* it runs and handed a line of input when it waits, until it has stopped
DriverLines == Lines \ {Line_loop}

InitDriver == Init /\ entry = LoadEntry

\* State::Running => machine.step()
DriverStep ==
    /\ phase = "built"
    /\ state = "Running"
    /\ LET r == Machine_step(Self)
       IN IF r.panic
          THEN /\ phase' = "panicked"
               /\ last' = [op |-> "panic", arg |-> 0, output |-> None, state |-> state]
               /\ UNCHANGED machine_vars
          ELSE /\ SetSelf(r.m)
               /\ last' = [op |-> "step", arg |-> 0, output |-> r.output, state |-> state]
               /\ UNCHANGED phase
    /\ UNCHANGED <<entry, source, locals, err>>

\* State::InputWaiting => machine.input(value)
DriverInput(value) ==
    /\ state = "InputWaiting"
    /\ Input(value)

NextDriver ==
    \/ \E line \in DriverLines : LoadParseLine(line)
    \/ LoadReturn
    \/ DriverStep
    \/ \E value \in Inputs : DriverInput(value)

\* the loop goes on: a step or an input that is due is made
SpecDriver ==
    /\ InitDriver /\ [][NextDriver]_vars
    /\ WF_vars(DriverStep)
    /\ WF_vars(\E value \in Inputs : DriverInput(value))

\* the characters of the deflectors and comparators
TurnChars == {">", "<", "v", "^", "o", "/", "\\", "z", "c"}
\* the growable loader has built a machine from a text whose instruction
\* rows have no deflector and no comparator
BuiltStraight ==
    /\ phase = "built" /\ entry.name = "load"
    /\ \A r \in 1..Len(CodeRows(source)) : \A k \in 1..Len(CodeRows(source)[r]) :
          CodeRows(source)[r][k] \notin TurnChars
\* the width of the grid of the text
W == Longest(CodeRows(source))

\* C39: a machine the growable loader builds from a program without
\* deflector and comparator, stepped while it runs and given input whenever
\* it waits, reaches Stopped.  It keeps heading right along row 0: every
\* step taken in Running with the pointer at (x, 0), x < W, executes that
\* cell and moves the pointer to (x + 1, 0), so the cells (0,0)..(W-1,0) are
\* executed in order; the step taken in Running at (W, 0), the (W+1)-th,
\* sets Stopped; and with W = 0 the first step stops.
C39_Terminates ==
    /\ [][BuiltStraight
          => /\ velocity = 0 /\ pointer[2] = 0 /\ pointer[1] <= W
             /\ state = "Stopped" => pointer = <<W, 0>>
             /\ (StepCall /\ state = "Running")
                => IF pointer[1] < W
                   THEN /\ Fetched # None
                        /\ pointer' = <<pointer[1] + 1, 0>>
                        /\ state' # "Stopped"
                   ELSE state' = "Stopped" /\ pointer' = pointer
             /\ phase' # "panicked"]_vars
    /\ BuiltStraight ~> state = "Stopped"
\* the program "ip" has waited for input, printed it and stopped at (2, 0)
C39_Witness ==
    /\ BuiltStraight /\ source = <<Line_input_p>>
    /\ state = "Stopped" /\ pointer = <<2, 0>>
    /\ last.op = "step" /\ last.state = "Running"
    /\ register \in Inputs
\* the empty program has stopped on its first step
C39_WitnessEmpty ==
    /\ BuiltStraight /\ source = << >>
    /\ state = "Stopped" /\ pointer = <<0, 0>>
    /\ last.op = "step" /\ last.state = "Running"

\* ------------------------------------------ load::from_str on whole texts
\* a loop that checks every stack line against the rows read before it
RECURSIVE load_lines_eager(_, _)
load_lines_eager(text, locals_) ==
    IF text = << >> THEN Ok(locals_)
    ELSE LET r == load_parse_line(text[1], locals_)
         IN IF ~r.ok THEN r
            ELSE LET made == create_stacks(
                                 r.v.stack_instructions,
                                 VecPlane_from(r.v.instructions, Instruction_default))
                 IN IF ~made.ok THEN made
                    ELSE load_lines_eager(Tail(text), r.v)

\* `for line in source.lines() { parse_line(...)?; }` of load::from_str
RECURSIVE load_lines(_, _)
load_lines(text, locals_) ==
    IF text = << >> THEN Ok(locals_)
    ELSE LET r == load_parse_line(text[1], locals_)
         IN IF ~r.ok THEN r ELSE load_lines(Tail(text), r.v)

\* load::from_str(source, try_parse_n) -> Result<Machine<N>, Error>
load_from_str(text) ==
    LET parsed == load_lines(text, InitLocals(LoadEntry))
    IN IF ~parsed.ok THEN parsed
       ELSE LET plane == VecPlane_from(parsed.v.instructions, Instruction_default)
                made == create_stacks(parsed.v.stack_instructions, plane)
            IN IF ~made.ok THEN made
               ELSE Ok(Machine_new(plane, made.v))

\* from_str has returned r for the text: a machine, or an error
Returned(r) ==
    IF r.ok
    THEN /\ phase = "built" /\ err = NoError
         /\ state = r.v.state
         /\ instructions = r.v.instructions
         /\ stacks = r.v.stacks
         /\ register = r.v.register
         /\ pointer = r.v.pointer
         /\ velocity = r.v.velocity
    ELSE /\ phase = "failed" /\ err = r.v
         /\ state = NoMachine.state
         /\ instructions = NoMachine.instructions
         /\ stacks = NoMachine.stacks
         /\ register = NoMachine.register
         /\ pointer = NoMachine.pointer
         /\ velocity = NoMachine.velocity

\* every text of up to MaxTextLines lines, loaded
MaxTextLines == 3
InitReorder ==
    /\ entry = LoadEntry
    /\ source \in UNION {[1..n -> Lines] : n \in 0..MaxTextLines}
    /\ locals = NoLocals
    /\ Returned(load_from_str(source))
    /\ last = NoCall

\* a line that declares a stack
IsStackLine(line) == line # << >> /\ line[1] = "s"

\* the text with the lines k and k + 1 exchanged
Exchanged(text, k) ==
    [l \in 1..Len(text) |->
        IF l = k THEN text[k + 1] ELSE IF l = k + 1 THEN text[k] ELSE text[l]]

\* a stack line is moved across the line next to it, which is none, and the
\* text is loaded again
MoveStackLine(k) ==
    /\ k \in 1..(Len(source) - 1)
    /\ IsStackLine(source[k]) # IsStackLine(source[k + 1])
    /\ source' = Exchanged(source, k)
    /\ LET r == load_from_str(source')
       IN IF r.ok
          THEN SetSelf(r.v) /\ phase' = "built" /\ err' = NoError
          ELSE SetSelf(NoMachine) /\ phase' = "failed" /\ err' = r.v
    /\ last' = [op |-> "from_str", arg |-> k, output |-> None, state |-> state]
    /\ UNCHANGED <<entry, locals>>

NextReorder == \E k \in 1..MaxTextLines : MoveStackLine(k)

SpecReorder == InitReorder /\ [][NextReorder]_vars

\* a stack line has been moved and the text loaded again
Moved == entry = LoadEntry /\ last'.op = "from_str"

\* C40: in the growable loader the result does not depend on where the
\* stack lines stand among the other lines: when a stack line is moved
\* across a neighbouring line that is not a stack line (the order of the
\* stack lines and the order of the other lines being kept), the text is
\* accepted if and only if it was accepted before, and the machine built
\* is the same: the same instructions, the same stacks with the same
\* contents, the same register, pointer, direction and state.
C40_StackLinePlacement ==
    [][Moved
       => /\ (phase' = "built") <=> (phase = "built")
          /\ (phase' = "failed") <=> (phase = "failed")
          /\ instructions' = instructions
          /\ stacks' = stacks
          /\ Self' = Self]_vars
\* "s 0 0 5 10" has been moved below the row "p": the same machine
C40_Witness ==
    /\ last.op = "from_str" /\ phase = "built"
    /\ source = <<Line_p, Line_stack00>>
    /\ instructions.width = 1 /\ instructions.height = 1
    /\ Contents(stacks.rows[1][1]) = <<5, 10>>
\* "s 1 0 7" has been moved between the rows "i   c" and "p": the same
\* machine, with the 7 in stack (1, 0)
C40_WitnessBetween ==
    /\ last.op = "from_str" /\ phase = "built"
    /\ source = <<Line_input_cmp, Line_stack10, Line_p>>
    /\ instructions.width = 5 /\ instructions.height = 2
    /\ Contents(stacks.rows[1][2]) = <<7>>
\* "s 1 0 7" has been moved above the row "p": refused as before
C40_WitnessRefused ==
    /\ last.op = "from_str" /\ phase = "failed"
    /\ source = <<Line_stack10, Line_p>>
    /\ err = [kind |-> "StackPointerOutOfRange", pointer |-> <<1, 0>>]
====
